---------------------------- MODULE Spec2Model ----------------------------
(***************************************************************************)
(* Model of the avocado price predictor: the artifact and data loading of  *)
(* PredictorAguacate, its prediction, trend, validation and info           *)
(* operations (src/src/models/predictor.py), the loader, the file check    *)
(* and the feature synthesizer (src/src/utils/data_handler.py) and the     *)
(* streak scan of the volatility analysis and the handlers of the          *)
(* application window that load the model and ask it for predictions       *)
(* (src/src/app/main.py).                                                  *)
(*                                                                         *)
(* Conventions.  A Python value that may be None is an option: <<>> is     *)
(* None and <<v>> is v.  A float is NaN (<<>>) or an exact fraction        *)
(* <<n, d>> in lowest terms with d > 0; <<1, 0>> and <<-1, 0>> are +inf    *)
(* and -inf.  A date is <<year, month, day>>.  A call of the opaque        *)
(* regression artifact is kept as the term of its arguments.               *)
(***************************************************************************)
EXTENDS Integers, Sequences, FiniteSets, TLC

VARIABLES
    archivos,                  \* artifact store: file name -> blob
    fuente,                    \* historical data source (the CSV file)
    desempate,                 \* how the build's sort orders rows of equal date
    pc,                        \* "sin_construir" | "construido"
    modelo_svm,                \* self.modelo_svm   (option)
    scaler_x,                  \* self.scaler_x     (option)
    scaler_y,                  \* self.scaler_y     (option)
    columnas_caracteristicas,  \* self.columnas_caracteristicas (option)
    datos_historicos,          \* self.datos_historicos (option of a frame)
    modelo_cargado,            \* self.modelo_cargado
    salida,                    \* messages printed by the two loaders
    X_pred,                    \* the row the last prediction selected (option)
    op,                        \* the last public call: [nombre, arg]
    resultado,                 \* what that call returned
    predictor,                 \* app.predictor: option, an index of instancias
    instancias,                \* the PredictorAguacate objects constructed
    estado_modelo,             \* app.estado_modelo, the status bar
    texto_info,                \* app.texto_info, the log pane (messages)
    texto_resultados,          \* app.texto_resultados, the result pane (texts)
    texto_multiples,           \* the batch window's pane: option of its lines
    dialogo,                   \* the last message box shown: [tipo, texto]
    llamadas                   \* calls the last handler made on app.predictor

campos == <<modelo_svm, scaler_x, scaler_y, columnas_caracteristicas,
            datos_historicos, modelo_cargado>>

\* The state of the application window.  The fields of the instance under
\* app.predictor are the variables of campos.
interfaz == <<predictor, instancias, estado_modelo, texto_info,
              texto_resultados, texto_multiples, dialogo, llamadas>>

vars == <<archivos, fuente, desempate, pc, modelo_svm, scaler_x, scaler_y,
          columnas_caracteristicas, datos_historicos, modelo_cargado,
          salida, X_pred, op, resultado, predictor, instancias,
          estado_modelo, texto_info, texto_resultados, texto_multiples,
          dialogo, llamadas>>

-----------------------------------------------------------------------------
(* Bounds of the model.                                                    *)

MaxFilas == 3        \* rows of a generated historical source
MaxPrecios == 4      \* rows of a generated price series for the streak scan
MaxFechas == 2       \* length of a batch of dates
MaxMeses == 3        \* largest trend window, in months
MaxSerie == 6        \* rows of a generated series that fills every window
MaxLote == 3         \* largest number of months asked of the date generator
MaxCargas == 2       \* loads of the model in a run of the application
MaxTextos == 2       \* texts the result pane holds before it is cleared

-----------------------------------------------------------------------------
(* Python values.                                                          *)

None == <<>>
Some(v) == <<v>>
NaN == <<>>

Abs(n) == IF n < 0 THEN -n ELSE n

SecuenciasHasta(S, n) == UNION {[1..k -> S] : k \in 0..n}

RECURSIVE Mcd(_, _)
Mcd(a, b) == IF b = 0 THEN a ELSE Mcd(b, a % b)

\* The float n/d: d = 0 gives the IEEE results of a division by zero.
Frac(n, d) ==
    IF d = 0
    THEN (IF n = 0 THEN NaN ELSE IF n > 0 THEN <<1, 0>> ELSE <<-1, 0>>)
    ELSE LET s == IF d < 0 THEN -1 ELSE 1
             g == Mcd(Abs(n), Abs(d))
         IN  <<(s * n) \div g, (s * d) \div g>>

Num(n) == <<n, 1>>
EsNaN(x) == x = NaN

\* Float arithmetic; NaN propagates, as in IEEE.
Resta(x, y) ==
    IF EsNaN(x) \/ EsNaN(y) THEN NaN
    ELSE IF x[2] = 0 \/ y[2] = 0
         THEN (IF x[2] = 0 /\ y[2] = 0
               THEN (IF x[1] = y[1] THEN NaN ELSE x)
               ELSE IF x[2] = 0 THEN x ELSE <<-y[1], 0>>)
         ELSE Frac(x[1] * y[2] - y[1] * x[2], x[2] * y[2])

Suma(x, y) ==
    IF EsNaN(x) \/ EsNaN(y) THEN NaN
    ELSE IF x[2] = 0 \/ y[2] = 0
         THEN (IF x[2] = 0 /\ y[2] = 0
               THEN (IF x[1] = y[1] THEN x ELSE NaN)
               ELSE IF x[2] = 0 THEN x ELSE y)
         ELSE Frac(x[1] * y[2] + y[1] * x[2], x[2] * y[2])

Div(x, y) ==
    IF EsNaN(x) \/ EsNaN(y) THEN NaN
    ELSE IF x[2] = 0
         THEN (IF y[2] = 0 THEN NaN
               ELSE IF y[1] < 0 THEN <<-x[1], 0>> ELSE x)
         ELSE IF y[2] = 0 THEN <<0, 1>>
         ELSE Frac(x[1] * y[2], x[2] * y[1])

Por(x, k) ==
    IF EsNaN(x) THEN NaN
    ELSE IF x[2] = 0 THEN (IF k = 0 THEN NaN
                           ELSE IF k > 0 THEN x ELSE <<-x[1], 0>>)
    ELSE Frac(x[1] * k, x[2])

\* x > y and x < y on floats: every comparison with NaN is false.
Mayor(x, y) ==
    /\ ~EsNaN(x)
    /\ ~EsNaN(y)
    /\ IF x[2] = 0 /\ y[2] = 0 THEN x[1] > y[1]
       ELSE IF x[2] = 0 THEN x[1] > 0
       ELSE IF y[2] = 0 THEN y[1] < 0
       ELSE x[1] * y[2] > y[1] * x[2]

Menor(x, y) == Mayor(y, x)

\* round(x, 2): the nearest multiple of 1/100, ties to the even one.
Redondear2(x) ==
    IF EsNaN(x) \/ x[2] = 0 THEN x
    ELSE LET n == x[1] * 100
             d == x[2]
             q == n \div d            \* floor
             r == n - q * d           \* 0 <= r < d
             k == IF 2 * r > d THEN q + 1
                  ELSE IF 2 * r < d THEN q
                  ELSE IF q % 2 = 0 THEN q ELSE q + 1
         IN  Frac(k, 100)

-----------------------------------------------------------------------------
(* Calendar: datetime.strptime, Timestamp comparison, pd.DateOffset.       *)

EsBisiesto(y) == (y % 4 = 0 /\ y % 100 # 0) \/ y % 400 = 0

DiasMes(y, m) ==
    IF m = 2 THEN (IF EsBisiesto(y) THEN 29 ELSE 28)
    ELSE IF m \in {4, 6, 9, 11} THEN 30 ELSE 31

\* strptime(fecha, '%Y-%m-%d') succeeds exactly on the real calendar dates.
EsFechaValida(f) ==
    /\ f[1] \in 1..9999
    /\ f[2] \in 1..12
    /\ f[3] \in 1..DiasMes(f[1], f[2])

FechaMenor(a, b) ==
    \/ a[1] < b[1]
    \/ a[1] = b[1] /\ a[2] < b[2]
    \/ a[1] = b[1] /\ a[2] = b[2] /\ a[3] < b[3]

FechaMenorIgual(a, b) == a = b \/ FechaMenor(a, b)

\* ts - pd.DateOffset(months=n): calendar months, the day clamped to the
\* length of the month reached.
RestarMeses(f, n) ==
    LET t == f[1] * 12 + (f[2] - 1) - n
        y == t \div 12
        m == (t % 12) + 1
        d == IF f[3] > DiasMes(y, m) THEN DiasMes(y, m) ELSE f[3]
    IN  <<y, m, d>>

-----------------------------------------------------------------------------
(* The artifact store and the historical data source.                      *)

\* The four files of archivos_modelo, in the order of the dictionary.
NombresArchivos == <<"modelo", "scaler_x", "scaler_y", "features">>

\* A blob is missing ("falta"), present but not deserializable
\* ("corrupto"), or deserializes to the object obj.
Falta == [estado |-> "falta", obj |-> None]
Corrupto == [estado |-> "corrupto", obj |-> None]
Blob(o) == [estado |-> "ok", obj |-> Some(o)]

\* The columns crear_caracteristicas_temporales adds to the frame.
NombresCaracteristicas ==
    {"year", "month", "day_of_year", "quarter", "month_sin", "month_cos",
     "day_sin", "day_cos", "days_since_start", "precio_lag1", "precio_lag2",
     "precio_lag3", "precio_ma3", "precio_ma6", "precio_std3",
     "precio_diff1", "precio_diff2"}

ColFecha == "Fecha_Pub_DOF"
ColPrecio == "Precio promedio"

\* A frame: the set of its column labels and its rows in index order.
Frame(cols, filas) == [columnas |-> cols, filas |-> filas]
Fila(f, p) == [fecha |-> f, precio |-> p]

\* A source file: absent, or a table with some columns and rows.
SinArchivo == [existe |-> FALSE, columnas |-> {}, filas |-> <<>>]
Tabla(cols, filas) == [existe |-> TRUE, columnas |-> cols, filas |-> filas]

\* The orders in which some sort by date may leave the rows indexed by S:
\* each time one of the rows of least date comes next.
RECURSIVE Ordenes(_, _)
Ordenes(filas, S) ==
    IF S = {} THEN {<<>>}
    ELSE UNION {{<<filas[i]>> \o r : r \in Ordenes(filas, S \ {i})} :
                  i \in {k \in S : \A j \in S :
                            FechaMenorIgual(filas[k].fecha, filas[j].fecha)}}

\* The default sort is not stable: which of the rows of equal date comes
\* first is a rule of the build, the same at every call.  Two rules are
\* modelled: equal dates keep the order they came in, or reverse it.
Desempates == {"estable", "inverso"}

RECURSIVE Ordenado(_, _, _)
Ordenado(d, filas, S) ==
    IF S = {} THEN <<>>
    ELSE LET minimos == {k \in S : \A j \in S :
                            FechaMenorIgual(filas[k].fecha, filas[j].fecha)}
             i == IF d = "estable"
                  THEN CHOOSE k \in minimos : \A j \in minimos : k <= j
                  ELSE CHOOSE k \in minimos : \A j \in minimos : k >= j
         IN  <<filas[i]>> \o Ordenado(d, filas, S \ {i})

\* OrdenarPorFecha with the rows left in the order of the source.
OrdenarPorFechaSinOrdenar(filas) == {filas}

\* OrdenarPorFecha with the order of equal dates open at every call.
OrdenarPorFechaPorLlamada(filas) == Ordenes(filas, 1..Len(filas))

\* df.sort_values('Fecha_Pub_DOF').reset_index(drop=True): the outcomes of
\* the sort, one under the rule of the build.
OrdenarPorFecha(filas) == {Ordenado(desempate, filas, 1..Len(filas))}

\* cargar_datos_historicos(ruta_archivo): the possible outcomes, each the
\* frame returned or the exception raised.
cargar_datos_historicos(src) ==
    IF ~src.existe
    THEN {[error |-> "FileNotFoundError", df |-> None]}
    ELSE IF src.columnas = {}                  \* read_csv: nothing to parse
    THEN {[error |-> "Exception", df |-> None]}
    ELSE IF ColFecha \notin src.columnas       \* df['Fecha_Pub_DOF']
    THEN {[error |-> "Exception", df |-> None]}
    ELSE IF \E i \in 1..Len(src.filas) : ~EsFechaValida(src.filas[i].fecha)
    THEN {[error |-> "Exception", df |-> None]}   \* pd.to_datetime
    ELSE {[error |-> "", df |-> Some(Frame(src.columnas, o))] :
            o \in OrdenarPorFecha(src.filas)}

\* _cargar_modelo without the check that the four files exist: the files
\* are loaded in order until one is missing or does not deserialize.
_cargar_modelo_sin_verificar(arch) ==
    LET k == CHOOSE n \in 0..Len(NombresArchivos) :
                /\ \A i \in 1..n : arch[NombresArchivos[i]].estado = "ok"
                /\ n < Len(NombresArchivos) =>
                      arch[NombresArchivos[n + 1]].estado # "ok"
        campo(i) == IF i <= k THEN arch[NombresArchivos[i]].obj ELSE None
    IN  [modelo_svm |-> campo(1), scaler_x |-> campo(2),
         scaler_y |-> campo(3), columnas_caracteristicas |-> campo(4),
         modelo_cargado |-> (k = Len(NombresArchivos)),
         salida |-> IF k = Len(NombresArchivos) THEN <<>>
                    ELSE <<[de |-> "modelo", error |-> "Exception",
                            nombre |-> NombresArchivos[k + 1]]>>]

\* CargadosHasta with a failed deserialization passed over.
RECURSIVE CargadosHastaTolerante(_, _)
CargadosHastaTolerante(arch, i) ==
    IF i > Len(NombresArchivos) THEN i - 1
    ELSE IF arch[NombresArchivos[i]].estado = "falta" THEN i - 1
    ELSE CargadosHastaTolerante(arch, i + 1)

\* The prefix of the load order deserialized before the first failure.
RECURSIVE CargadosHasta(_, _)
CargadosHasta(arch, i) ==
    IF i > Len(NombresArchivos) THEN i - 1
    ELSE IF arch[NombresArchivos[i]].estado # "ok" THEN i - 1
    ELSE CargadosHasta(arch, i + 1)

\* _cargar_modelo with the files that are missing skipped instead of
\* failing the load.
_cargar_modelo_omite_faltantes(arch) ==
    LET campo(i) == IF arch[NombresArchivos[i]].estado = "ok"
                    THEN arch[NombresArchivos[i]].obj ELSE None
    IN  [modelo_svm |-> campo(1), scaler_x |-> campo(2),
         scaler_y |-> campo(3), columnas_caracteristicas |-> campo(4),
         modelo_cargado |->
             \A i \in 1..Len(NombresArchivos) :
                 arch[NombresArchivos[i]].estado # "corrupto",
         salida |-> <<>>]

\* PredictorAguacate._cargar_modelo: the fields it leaves and what it prints.
_cargar_modelo(arch) ==
    LET faltan == {i \in 1..Len(NombresArchivos) :
                      arch[NombresArchivos[i]].estado = "falta"}
        primero == CHOOSE i \in faltan : \A j \in faltan : i <= j
        k == CargadosHasta(arch, 1)
        campo(i) == IF i <= k THEN arch[NombresArchivos[i]].obj ELSE None
    IN  IF faltan # {}
        THEN [modelo_svm |-> None, scaler_x |-> None, scaler_y |-> None,
              columnas_caracteristicas |-> None, modelo_cargado |-> FALSE,
              salida |-> <<[de |-> "modelo", error |-> "FileNotFoundError",
                            nombre |-> NombresArchivos[primero]]>>]
        ELSE [modelo_svm |-> campo(1), scaler_x |-> campo(2),
              scaler_y |-> campo(3), columnas_caracteristicas |-> campo(4),
              modelo_cargado |-> (k = Len(NombresArchivos)),
              salida |-> IF k = Len(NombresArchivos) THEN <<>>
                         ELSE <<[de |-> "modelo", error |-> "Exception",
                                 nombre |-> NombresArchivos[k + 1]]>>]

\* PredictorAguacate._cargar_datos_historicos, given the loader's outcome.
_cargar_datos_historicos(r) ==
    IF r.error = ""
    THEN [datos_historicos |-> r.df, salida |-> <<>>]
    ELSE [datos_historicos |-> None,
          salida |-> <<[de |-> "datos", error |-> r.error, nombre |-> ""]>>]

\* PredictorAguacate.__init__: both loaders run, whatever the first did.
Construir ==
    /\ pc = "sin_construir"
    /\ \E r \in cargar_datos_historicos(fuente) :
         LET m == _cargar_modelo(archivos)
             d == _cargar_datos_historicos(r)
         IN  /\ modelo_svm' = m.modelo_svm
             /\ scaler_x' = m.scaler_x
             /\ scaler_y' = m.scaler_y
             /\ columnas_caracteristicas' = m.columnas_caracteristicas
             /\ modelo_cargado' = m.modelo_cargado
             /\ datos_historicos' = d.datos_historicos
             /\ salida' = m.salida \o d.salida
    /\ pc' = "construido"
    /\ op' = [nombre |-> "__init__", arg |-> None]
    /\ resultado' = None
    /\ UNCHANGED <<interfaz, archivos, fuente, desempate, X_pred>>

-----------------------------------------------------------------------------
(* crear_caracteristicas_temporales.                                       *)

\* Timestamp.dayofyear and the day count behind (a - b).days.
RECURSIVE DiaDelAnio(_)
DiaDelAnio(f) ==
    IF f[2] = 1 THEN f[3]
    ELSE DiasMes(f[1], f[2] - 1) + DiaDelAnio(<<f[1], f[2] - 1, f[3]>>)

Ordinal(f) ==
    LET y == f[1] - 1
    IN  365 * y + (y \div 4) - (y \div 100) + (y \div 400) + DiaDelAnio(f)

\* Series.min() of the date column of a frame with at least one row.
FechaMinima(filas) ==
    CHOOSE f \in {filas[i].fecha : i \in 1..Len(filas)} :
        \A i \in 1..Len(filas) : FechaMenorIgual(f, filas[i].fecha)

FechaMaxima(filas) ==
    CHOOSE f \in {filas[i].fecha : i \in 1..Len(filas)} :
        \A i \in 1..Len(filas) : FechaMenorIgual(filas[i].fecha, f)

\* Shift with the first price carried back into the rows that have no row
\* k places before them.
ShiftRelleno(filas, i, k) ==
    IF i - k >= 1 THEN filas[i - k].precio ELSE filas[1].precio

\* Shift with the rows taken from after row i, as shift(-k) does.
ShiftFuturo(filas, i, k) ==
    IF i + k <= Len(filas) THEN filas[i + k].precio ELSE NaN

\* Series.shift(k) at row i.
Shift(filas, i, k) == IF i - k >= 1 THEN filas[i - k].precio ELSE NaN

RECURSIVE SumaVentana(_, _, _)
SumaVentana(filas, i, w) ==
    IF w = 0 THEN Num(0)
    ELSE Suma(filas[i].precio, SumaVentana(filas, i - 1, w - 1))

\* MediaMovil with the window ending at the row before row i.
MediaMovilPrevia(filas, i, w) ==
    IF i <= w THEN NaN ELSE Div(SumaVentana(filas, i - 1, w), Num(w))

\* Series.rolling(window=w).mean() at row i: NaN until the window is full
\* and whenever it holds a NaN.
MediaMovil(filas, i, w) ==
    IF i < w THEN NaN ELSE Div(SumaVentana(filas, i, w), Num(w))

RECURSIVE SumaCuadrados(_, _, _, _)
SumaCuadrados(filas, i, w, m) ==
    IF w = 0 THEN Num(0)
    ELSE LET e == Resta(filas[i].precio, m)
         IN  Suma(IF EsNaN(e) THEN NaN ELSE Frac(e[1] * e[1], e[2] * e[2]),
                  SumaCuadrados(filas, i - 1, w - 1, m))

\* Series.rolling(window=w).std() at row i: the square root of the sample
\* variance (ddof = 1), kept as the term <<"sqrt", n, d>>.
DesvMovil(filas, i, w) ==
    IF i < w THEN NaN
    ELSE LET v == Div(SumaCuadrados(filas, i, w, MediaMovil(filas, i, w)),
                      Num(w - 1))
         IN  IF EsNaN(v) THEN NaN ELSE <<"sqrt", v[1], v[2]>>

\* Series.diff(k) at row i.
Diff(filas, i, k) ==
    IF i - k >= 1 THEN Resta(filas[i].precio, filas[i - k].precio) ELSE NaN

\* The labels of the frame crear_caracteristicas_temporales returns.
ColumnasFrame == NombresCaracteristicas \cup {ColFecha, ColPrecio}

\* The value of one column of that frame at row i.
Caracteristica(filas, i, nombre) ==
    LET f == filas[i].fecha
    IN  CASE nombre = ColFecha -> f
          [] nombre = ColPrecio -> filas[i].precio
          [] nombre = "year" -> Num(f[1])
          [] nombre = "month" -> Num(f[2])
          [] nombre = "day_of_year" -> Num(DiaDelAnio(f))
          [] nombre = "quarter" -> Num(((f[2] - 1) \div 3) + 1)
          [] nombre = "month_sin" -> <<"sin", f[2], 12>>
          [] nombre = "month_cos" -> <<"cos", f[2], 12>>
          [] nombre = "day_sin" -> <<"sin", DiaDelAnio(f), 365>>
          [] nombre = "day_cos" -> <<"cos", DiaDelAnio(f), 365>>
          [] nombre = "days_since_start" ->
                Num(Ordinal(f) - Ordinal(FechaMinima(filas)))
          [] nombre = "precio_lag1" -> Shift(filas, i, 1)
          [] nombre = "precio_lag2" -> Shift(filas, i, 2)
          [] nombre = "precio_lag3" -> Shift(filas, i, 3)
          [] nombre = "precio_ma3" -> MediaMovil(filas, i, 3)
          [] nombre = "precio_ma6" -> MediaMovil(filas, i, 6)
          [] nombre = "precio_std3" -> DesvMovil(filas, i, 3)
          [] nombre = "precio_diff1" -> Diff(filas, i, 1)
          [] nombre = "precio_diff2" -> Diff(filas, i, 2)

\* One row of that frame.
FilaCaracteristicas(filas, i) ==
    [nombre \in ColumnasFrame |-> Caracteristica(filas, i, nombre)]

crear_caracteristicas_temporales(filas) ==
    [i \in 1..Len(filas) |-> FilaCaracteristicas(filas, i)]

\* A call of the free function on the frame the predictor holds; a frame
\* without the price column makes it raise a KeyError.
CrearCaracteristicasTemporales ==
    /\ pc = "construido"
    /\ datos_historicos # None
    /\ resultado' =
          IF ColPrecio \in datos_historicos[1].columnas
          THEN crear_caracteristicas_temporales(datos_historicos[1].filas)
          ELSE [excepcion |-> "KeyError"]
    /\ op' = [nombre |-> "crear_caracteristicas_temporales",
              arg |-> Some(datos_historicos[1].filas)]
    /\ UNCHANGED <<interfaz, archivos, fuente, desempate, pc, campos, salida, X_pred>>

-----------------------------------------------------------------------------
(* PredictorAguacate.predecir_precio_fecha and predecir_multiples_fechas.  *)

ErrNoCargado == [error |-> "El modelo no esta cargado correctamente"]
ErrFecha == [error |-> "Formato de fecha invalido"]
ErrPrediccion == [error |-> "Error en la prediccion"]

\* UltimaFila with the missing values filled with zero.
UltimaFilaCeros(df_features, columnas, valor) ==
    LET fila == df_features[Cardinality(DOMAIN df_features)]
    IN  [j \in 1..Len(columnas) |->
            IF EsNaN(fila[columnas[j]]) THEN Num(0) ELSE fila[columnas[j]]]

\* df_features[columnas].iloc[-1:].fillna(valor): the last row, restricted
\* to the artifact's columns in the artifact's order, NaN replaced by valor.
UltimaFila(df_features, columnas, valor) ==
    LET fila == df_features[Cardinality(DOMAIN df_features)]
    IN  [j \in 1..Len(columnas) |->
            IF EsNaN(fila[columnas[j]]) THEN valor ELSE fila[columnas[j]]]

\* The opaque artifact on the vector X: the exception it raises, if any.
\* The input scaler rejects a vector of another width than it was fitted
\* on, and the regressor rejects a vector holding a NaN, both with a
\* ValueError.
FallaArtefacto(X) ==
    IF Len(X) # scaler_x[1].n_features THEN "ValueError"
    ELSE IF \E j \in 1..Len(X) : EsNaN(X[j]) THEN "ValueError"
    ELSE ""

\* PredecirSobre with the KeyError of an unknown feature name escaping the
\* call.
PredecirSobreSinCaptura(fecha, t, df_completo) ==
    LET hist == datos_historicos[1].filas
        df_features == crear_caracteristicas_temporales(df_completo)
        columnas == columnas_caracteristicas[1]
    IN  IF \E j \in 1..Len(columnas) : columnas[j] \notin ColumnasFrame
        THEN [res |-> [excepcion |-> "KeyError"], fila |-> None]
        ELSE IF Len(hist) = 0
        THEN [res |-> ErrPrediccion, fila |-> None]
        ELSE LET X == UltimaFila(df_features, columnas, hist[Len(hist)].precio)
                 usada == Some([fecha |-> df_completo[Len(df_completo)].fecha,
                                X |-> X])
             IN  IF FallaArtefacto(X) = "ValueError"
                 THEN [res |-> ErrFecha, fila |-> usada]
                 ELSE IF FallaArtefacto(X) # ""
                 THEN [res |-> ErrPrediccion, fila |-> usada]
                 ELSE [res |-> [fecha |-> fecha,
                                precio |-> [svr |-> X],
                                moneda |-> "MXN",
                                unidad |-> "kg",
                                fecha_prediccion |-> t,
                                modelo_usado |-> "SVM con kernel RBF"],
                       fila |-> usada]

\* What the body of predecir_precio_fecha does on the merged and re-sorted
\* frame df_completo, the date having parsed and the history being a frame
\* with both columns.
PredecirSobre(fecha, t, df_completo) ==
    LET hist == datos_historicos[1].filas
        df_features == crear_caracteristicas_temporales(df_completo)
        columnas == columnas_caracteristicas[1]
    IN  IF \E j \in 1..Len(columnas) : columnas[j] \notin ColumnasFrame
        THEN [res |-> ErrPrediccion, fila |-> None]   \* KeyError
        ELSE IF Len(hist) = 0                         \* .iloc[-1]: IndexError
        THEN [res |-> ErrPrediccion, fila |-> None]
        ELSE LET X == UltimaFila(df_features, columnas, hist[Len(hist)].precio)
                 usada == Some([fecha |-> df_completo[Len(df_completo)].fecha,
                                X |-> X])
             IN  IF FallaArtefacto(X) = "ValueError"
                 THEN [res |-> ErrFecha, fila |-> usada]
                 ELSE IF FallaArtefacto(X) # ""
                 THEN [res |-> ErrPrediccion, fila |-> usada]
                 ELSE [res |-> [fecha |-> fecha,
                                precio |-> [svr |-> X],
                                moneda |-> "MXN",
                                unidad |-> "kg",
                                fecha_prediccion |-> t,
                                modelo_usado |-> "SVM con kernel RBF"],
                       fila |-> usada]

\* predecir_precio_fecha with the date parsed before the load check.
predecir_precio_fecha_fecha_primero(fecha, t) ==
    IF ~EsFechaValida(fecha)
    THEN {[res |-> ErrFecha, fila |-> None]}
    ELSE IF ~modelo_cargado
    THEN {[res |-> ErrNoCargado, fila |-> None]}
    ELSE IF datos_historicos = None
    THEN {[res |-> ErrPrediccion, fila |-> None]}
    ELSE IF ~({ColFecha, ColPrecio} \subseteq datos_historicos[1].columnas)
    THEN {[res |-> ErrPrediccion, fila |-> None]}
    ELSE {PredecirSobre(fecha, t, df_completo) :
            df_completo \in OrdenarPorFecha(
                Append(datos_historicos[1].filas, Fila(fecha, NaN)))}

\* predecir_precio_fecha(fecha) when datetime.now() reads t: the possible
\* outcomes, each the record returned and the row handed to the scaler.
predecir_precio_fecha(fecha, t) ==
    IF ~modelo_cargado
    THEN {[res |-> ErrNoCargado, fila |-> None]}
    ELSE IF ~EsFechaValida(fecha)                     \* strptime: ValueError
    THEN {[res |-> ErrFecha, fila |-> None]}
    ELSE IF datos_historicos = None                   \* None[...]: TypeError
    THEN {[res |-> ErrPrediccion, fila |-> None]}
    ELSE IF ~({ColFecha, ColPrecio} \subseteq datos_historicos[1].columnas)
    THEN {[res |-> ErrPrediccion, fila |-> None]}     \* KeyError
    ELSE {PredecirSobre(fecha, t, df_completo) :
            df_completo \in OrdenarPorFecha(
                Append(datos_historicos[1].filas, Fila(fecha, NaN)))}

\* The dates a caller may pass: before, on and after the dates of the
\* histories, and one that strptime rejects.
FechasEntrada ==
    {<<2024, 1, 15>>, <<2024, 2, 1>>, <<2024, 7, 1>>, <<2024, 2, 30>>}

\* Two readings datetime.now() may give.
Relojes == {0, 1}

\* PredecirPrecioFecha with a failed prediction marking the model as not
\* loaded.
PredecirPrecioFechaDescarga ==
    /\ pc = "construido"
    /\ \E fecha \in FechasEntrada : \E t \in Relojes :
         \E r \in predecir_precio_fecha(fecha, t) :
            /\ resultado' = r.res
            /\ X_pred' = r.fila
            /\ modelo_cargado' = (modelo_cargado /\ "error" \notin DOMAIN r.res)
            /\ op' = [nombre |-> "predecir_precio_fecha", arg |-> Some(fecha)]
    /\ UNCHANGED <<interfaz, archivos, fuente, desempate, pc, modelo_svm, scaler_x,
                   scaler_y, columnas_caracteristicas, datos_historicos,
                   salida>>

PredecirPrecioFecha ==
    /\ pc = "construido"
    /\ \E fecha \in FechasEntrada : \E t \in Relojes :
         \E r \in predecir_precio_fecha(fecha, t) :
            /\ resultado' = r.res
            /\ X_pred' = r.fila
            /\ op' = [nombre |-> "predecir_precio_fecha", arg |-> Some(fecha)]
    /\ UNCHANGED <<interfaz, archivos, fuente, desempate, pc, campos, salida>>

\* Bucle with results that carry an error left out of the list.
RECURSIVE BucleSinErrores(_, _)
BucleSinErrores(fechas, i) ==
    IF i > Len(fechas) THEN {[resultados |-> <<>>, fila |-> None]}
    ELSE UNION {
           UNION {
             {[resultados |->
                 (IF "error" \in DOMAIN r.res THEN <<>> ELSE <<r.res>>)
                    \o resto.resultados,
               fila |-> IF i = Len(fechas) THEN r.fila ELSE resto.fila] :
                 resto \in BucleSinErrores(fechas, i + 1)} :
               r \in predecir_precio_fecha(fechas[i], t)} :
             t \in Relojes}

\* The loop of predecir_multiples_fechas from position i on: the possible
\* lists of results, each call reading the clock for itself.
RECURSIVE Bucle(_, _)
Bucle(fechas, i) ==
    IF i > Len(fechas) THEN {[resultados |-> <<>>, fila |-> None]}
    ELSE UNION {
           UNION {
             {[resultados |-> <<r.res>> \o resto.resultados,
               fila |-> IF i = Len(fechas) THEN r.fila ELSE resto.fila] :
                 resto \in Bucle(fechas, i + 1)} :
               r \in predecir_precio_fecha(fechas[i], t)} :
             t \in Relojes}

\* The dates of a batch.
FechasLote == {<<2024, 3, 1>>, <<2024, 7, 1>>, <<2024, 2, 30>>}

PredecirMultiplesFechas ==
    /\ pc = "construido"
    /\ \E fechas \in SecuenciasHasta(FechasLote, MaxFechas) :
         \E b \in Bucle(fechas, 1) :
            /\ resultado' = b.resultados
            /\ X_pred' = IF fechas = <<>> THEN X_pred ELSE b.fila
            /\ op' = [nombre |-> "predecir_multiples_fechas",
                      arg |-> Some(fechas)]
    /\ UNCHANGED <<interfaz, archivos, fuente, desempate, pc, campos, salida>>

-----------------------------------------------------------------------------
(* PredictorAguacate.obtener_tendencia_historica.                          *)

ErrSinDatos == [error |-> "No hay datos historicos cargados"]
ErrInsuficiente == [error |-> "No hay suficientes datos para la tendencia"]
ErrTendencia == [error |-> "Error al calcular tendencia"]

\* Filtrar with the comparison > in place of >=.
RECURSIVE FiltrarEstricto(_, _)
FiltrarEstricto(filas, limite) ==
    IF filas = <<>> THEN <<>>
    ELSE IF FechaMenor(limite, Head(filas).fecha)
         THEN <<Head(filas)>> \o FiltrarEstricto(Tail(filas), limite)
         ELSE FiltrarEstricto(Tail(filas), limite)

\* df[df['Fecha_Pub_DOF'] >= limite]: the rows on or after limite, in order.
RECURSIVE Filtrar(_, _)
Filtrar(filas, limite) ==
    IF filas = <<>> THEN <<>>
    ELSE IF FechaMenorIgual(limite, Head(filas).fecha)
         THEN <<Head(filas)>> \o Filtrar(Tail(filas), limite)
         ELSE Filtrar(Tail(filas), limite)

\* The non-NaN prices of the rows, in order (what mean, max, min and std
\* of a Series look at).
RECURSIVE SinNaN(_)
SinNaN(filas) ==
    IF filas = <<>> THEN <<>>
    ELSE IF EsNaN(Head(filas).precio) THEN SinNaN(Tail(filas))
         ELSE <<Head(filas).precio>> \o SinNaN(Tail(filas))

RECURSIVE SumaSerie(_)
SumaSerie(xs) == IF xs = <<>> THEN Num(0) ELSE Suma(Head(xs), SumaSerie(Tail(xs)))

Media(xs) == IF xs = <<>> THEN NaN ELSE Div(SumaSerie(xs), Num(Len(xs)))

Maximo(xs) ==
    IF xs = <<>> THEN NaN
    ELSE CHOOSE x \in {xs[i] : i \in 1..Len(xs)} :
            \A i \in 1..Len(xs) : ~Mayor(xs[i], x)

Minimo(xs) ==
    IF xs = <<>> THEN NaN
    ELSE CHOOSE x \in {xs[i] : i \in 1..Len(xs)} :
            \A i \in 1..Len(xs) : ~Menor(xs[i], x)

RECURSIVE SumaDesvios2(_, _)
SumaDesvios2(xs, m) ==
    IF xs = <<>> THEN Num(0)
    ELSE LET e == Resta(Head(xs), m)
         IN  Suma(Frac(e[1] * e[1], e[2] * e[2]), SumaDesvios2(Tail(xs), m))

\* round(Series.std(), 2): the sample deviation, kept as the term
\* <<"round2sqrt", n, d>> of its variance n/d.
DesvRedondeada(xs) ==
    IF Len(xs) < 2 THEN NaN
    ELSE LET v == Div(SumaDesvios2(xs, Media(xs)), Num(Len(xs) - 1))
         IN  <<"round2sqrt", v[1], v[2]>>

\* Direccion with the change taken as a fraction of the first price, so
\* that the thresholds read 0.05 and -0.05.
DireccionFraccion(cambio_porcentual) ==
    IF Mayor(cambio_porcentual, Frac(5, 100)) THEN "Alcista"
    ELSE IF Menor(cambio_porcentual, Frac(-5, 100)) THEN "Bajista"
    ELSE "Estable"

\* Direccion with the thresholds included in the trend labels.
DireccionInclusiva(cambio_porcentual) ==
    IF ~Menor(cambio_porcentual, Num(5)) /\ ~EsNaN(cambio_porcentual)
    THEN "Alcista"
    ELSE IF ~Mayor(cambio_porcentual, Num(-5)) /\ ~EsNaN(cambio_porcentual)
    THEN "Bajista"
    ELSE "Estable"

\* The if/elif/else on cambio_porcentual.
Direccion(cambio_porcentual) ==
    IF Mayor(cambio_porcentual, Num(5)) THEN "Alcista"
    ELSE IF Menor(cambio_porcentual, Num(-5)) THEN "Bajista"
    ELSE "Estable"

\* obtener_tendencia_historica without the check of the length of the
\* window: the first price of an empty window is an IndexError.
obtener_tendencia_historica_sin_longitud(ultimos_meses) ==
    IF datos_historicos = None THEN ErrSinDatos
    ELSE LET df == datos_historicos[1]
         IN  IF Len(df.filas) = 0
             THEN ErrTendencia
             ELSE LET fecha_limite ==
                          RestarMeses(FechaMaxima(df.filas), ultimos_meses)
                      datos_recientes == Filtrar(df.filas, fecha_limite)
                  IN  IF Len(datos_recientes) = 0 THEN ErrTendencia
                      ELSE IF ColPrecio \notin df.columnas    \* KeyError
                      THEN ErrTendencia
                      ELSE
                      LET precio_inicial == datos_recientes[1].precio
                          precio_final ==
                              datos_recientes[Len(datos_recientes)].precio
                          cambio_absoluto == Resta(precio_final, precio_inicial)
                          cambio_porcentual ==
                              Por(Div(cambio_absoluto, precio_inicial), 100)
                          precios == SinNaN(datos_recientes)
                      IN  [periodo_analizado |-> ultimos_meses,
                           precio_inicial |-> Redondear2(precio_inicial),
                           precio_final |-> Redondear2(precio_final),
                           cambio_absoluto |-> Redondear2(cambio_absoluto),
                           cambio_porcentual |-> Redondear2(cambio_porcentual),
                           direccion_tendencia |-> Direccion(cambio_porcentual),
                           precio_promedio_periodo |-> Redondear2(Media(precios)),
                           precio_maximo_periodo |-> Redondear2(Maximo(precios)),
                           precio_minimo_periodo |-> Redondear2(Minimo(precios)),
                           volatilidad |-> DesvRedondeada(precios)]

\* obtener_tendencia_historica refusing to work until the artifact is loaded,
\* as predecir_precio_fecha does.
obtener_tendencia_historica_requiere_modelo(ultimos_meses) ==
    IF ~modelo_cargado THEN ErrNoCargado
    ELSE
    IF datos_historicos = None THEN ErrSinDatos
    ELSE LET df == datos_historicos[1]
         IN  IF Len(df.filas) = 0        \* max() is NaT: nothing passes >=
             THEN ErrInsuficiente
             ELSE LET fecha_limite ==
                          RestarMeses(FechaMaxima(df.filas), ultimos_meses)
                      datos_recientes == Filtrar(df.filas, fecha_limite)
                  IN  IF Len(datos_recientes) = 0 THEN ErrInsuficiente
                      ELSE IF ColPrecio \notin df.columnas    \* KeyError
                      THEN ErrTendencia
                      ELSE
                      LET precio_inicial == datos_recientes[1].precio
                          precio_final ==
                              datos_recientes[Len(datos_recientes)].precio
                          cambio_absoluto == Resta(precio_final, precio_inicial)
                          cambio_porcentual ==
                              Por(Div(cambio_absoluto, precio_inicial), 100)
                          precios == SinNaN(datos_recientes)
                      IN  [periodo_analizado |-> ultimos_meses,
                           precio_inicial |-> Redondear2(precio_inicial),
                           precio_final |-> Redondear2(precio_final),
                           cambio_absoluto |-> Redondear2(cambio_absoluto),
                           cambio_porcentual |-> Redondear2(cambio_porcentual),
                           direccion_tendencia |-> Direccion(cambio_porcentual),
                           precio_promedio_periodo |-> Redondear2(Media(precios)),
                           precio_maximo_periodo |-> Redondear2(Maximo(precios)),
                           precio_minimo_periodo |-> Redondear2(Minimo(precios)),
                           volatilidad |-> DesvRedondeada(precios)]

obtener_tendencia_historica(ultimos_meses) ==
    IF datos_historicos = None THEN ErrSinDatos
    ELSE LET df == datos_historicos[1]
         IN  IF Len(df.filas) = 0        \* max() is NaT: nothing passes >=
             THEN ErrInsuficiente
             ELSE LET fecha_limite ==
                          RestarMeses(FechaMaxima(df.filas), ultimos_meses)
                      datos_recientes == Filtrar(df.filas, fecha_limite)
                  IN  IF Len(datos_recientes) = 0 THEN ErrInsuficiente
                      ELSE IF ColPrecio \notin df.columnas    \* KeyError
                      THEN ErrTendencia
                      ELSE
                      LET precio_inicial == datos_recientes[1].precio
                          precio_final ==
                              datos_recientes[Len(datos_recientes)].precio
                          cambio_absoluto == Resta(precio_final, precio_inicial)
                          cambio_porcentual ==
                              Por(Div(cambio_absoluto, precio_inicial), 100)
                          precios == SinNaN(datos_recientes)
                      IN  [periodo_analizado |-> ultimos_meses,
                           precio_inicial |-> Redondear2(precio_inicial),
                           precio_final |-> Redondear2(precio_final),
                           cambio_absoluto |-> Redondear2(cambio_absoluto),
                           cambio_porcentual |-> Redondear2(cambio_porcentual),
                           direccion_tendencia |-> Direccion(cambio_porcentual),
                           precio_promedio_periodo |-> Redondear2(Media(precios)),
                           precio_maximo_periodo |-> Redondear2(Maximo(precios)),
                           precio_minimo_periodo |-> Redondear2(Minimo(precios)),
                           volatilidad |-> DesvRedondeada(precios)]

ObtenerTendenciaHistorica ==
    /\ pc = "construido"
    /\ \E ultimos_meses \in 1..MaxMeses :
         /\ resultado' = obtener_tendencia_historica(ultimos_meses)
         /\ op' = [nombre |-> "obtener_tendencia_historica",
                   arg |-> Some(ultimos_meses)]
    /\ UNCHANGED <<interfaz, archivos, fuente, desempate, pc, campos, salida, X_pred>>

-----------------------------------------------------------------------------
(* PredictorAguacate.validar_modelo and obtener_info_modelo.               *)

\* validar_modelo with the aggregate taken from modelo_cargado alone.
validar_modelo_sin_datos ==
    [modelo_svm_cargado |-> modelo_svm # None,
     scaler_x_cargado |-> scaler_x # None,
     scaler_y_cargado |-> scaler_y # None,
     columnas_caracteristicas_cargadas |-> columnas_caracteristicas # None,
     datos_historicos_cargados |-> datos_historicos # None,
     modelo_completamente_funcional |-> modelo_cargado]

validar_modelo ==
    [modelo_svm_cargado |-> modelo_svm # None,
     scaler_x_cargado |-> scaler_x # None,
     scaler_y_cargado |-> scaler_y # None,
     columnas_caracteristicas_cargadas |-> columnas_caracteristicas # None,
     datos_historicos_cargados |-> datos_historicos # None,
     modelo_completamente_funcional |->
         modelo_cargado /\ datos_historicos # None]

ValidarModelo ==
    /\ pc = "construido"
    /\ resultado' = validar_modelo
    /\ op' = [nombre |-> "validar_modelo", arg |-> None]
    /\ UNCHANGED <<interfaz, archivos, fuente, desempate, pc, campos, salida, X_pred>>

ErrInfoNoCargado == [error |-> "Modelo no cargado"]
ErrInfo == [error |-> "Error al obtener informacion del modelo"]

obtener_info_modelo ==
    IF ~modelo_cargado THEN ErrInfoNoCargado
    ELSE LET cols == IF columnas_caracteristicas # None
                     THEN columnas_caracteristicas[1] ELSE <<>>
             info == [tipo_modelo |-> "Support Vector Regression (SVR)",
                      kernel |-> IF modelo_svm # None
                                 THEN modelo_svm[1].kernel
                                 ELSE "No disponible",
                      num_caracteristicas |-> Len(cols),
                      caracteristicas_usadas |-> cols,
                      escalador_usado |-> "MinMaxScaler",
                      datos_historicos_disponibles |->
                          IF datos_historicos # None
                          THEN Len(datos_historicos[1].filas) ELSE 0,
                      fecha_inicio_datos |-> None,
                      fecha_fin_datos |-> None]
         IN  IF datos_historicos = None THEN info
             ELSE IF Len(datos_historicos[1].filas) = 0   \* NaT.strftime
             THEN ErrInfo
             ELSE [info EXCEPT
                     !.fecha_inicio_datos =
                         Some(FechaMinima(datos_historicos[1].filas)),
                     !.fecha_fin_datos =
                         Some(FechaMaxima(datos_historicos[1].filas))]

ObtenerInfoModelo ==
    /\ pc = "construido"
    /\ resultado' = obtener_info_modelo
    /\ op' = [nombre |-> "obtener_info_modelo", arg |-> None]
    /\ UNCHANGED <<interfaz, archivos, fuente, desempate, pc, campos, salida, X_pred>>

-----------------------------------------------------------------------------
(* PredictorAguacateApp.analizar_volatilidad: the streak scan.             *)

\* precios.diff().dropna(): the defined differences of successive prices.
RECURSIVE Cambios(_, _)
Cambios(filas, i) ==
    IF i > Len(filas) THEN <<>>
    ELSE LET c == Resta(filas[i].precio, filas[i - 1].precio)
         IN  (IF EsNaN(c) THEN <<>> ELSE <<c>>) \o Cambios(filas, i + 1)

\* PasoRacha with every rise and every fall counted as a streak of its own.
PasoRachaCuentaTodo(e, cambio) ==
    IF Mayor(cambio, Num(0))
    THEN [e EXCEPT !.rachas_alcistas = @ + 1,
                   !.tipo_racha = "alcista", !.racha_actual = 1]
    ELSE IF Menor(cambio, Num(0))
    THEN [e EXCEPT !.rachas_bajistas = @ + 1,
                   !.tipo_racha = "bajista", !.racha_actual = 1]
    ELSE e

\* PasoRacha with a zero difference ending the tracked streak.
PasoRachaCeroRompe(e, cambio) ==
    IF Mayor(cambio, Num(0))
    THEN (IF e.tipo_racha # "alcista"
          THEN [e EXCEPT !.rachas_alcistas = @ + 1,
                         !.tipo_racha = "alcista", !.racha_actual = 1]
          ELSE [e EXCEPT !.racha_actual = @ + 1])
    ELSE IF Menor(cambio, Num(0))
    THEN (IF e.tipo_racha # "bajista"
          THEN [e EXCEPT !.rachas_bajistas = @ + 1,
                         !.tipo_racha = "bajista", !.racha_actual = 1]
          ELSE [e EXCEPT !.racha_actual = @ + 1])
    ELSE [e EXCEPT !.tipo_racha = "None", !.racha_actual = 0]

\* One iteration of the for loop over the differences; e is the tuple of
\* rachas_alcistas, rachas_bajistas, racha_actual and tipo_racha.
PasoRacha(e, cambio) ==
    IF Mayor(cambio, Num(0))
    THEN (IF e.tipo_racha # "alcista"
          THEN [e EXCEPT !.rachas_alcistas = @ + 1,
                         !.tipo_racha = "alcista", !.racha_actual = 1]
          ELSE [e EXCEPT !.racha_actual = @ + 1])
    ELSE IF Menor(cambio, Num(0))
    THEN (IF e.tipo_racha # "bajista"
          THEN [e EXCEPT !.rachas_bajistas = @ + 1,
                         !.tipo_racha = "bajista", !.racha_actual = 1]
          ELSE [e EXCEPT !.racha_actual = @ + 1])
    ELSE e

RECURSIVE Rachas(_, _)
Rachas(e, cambios) ==
    IF cambios = <<>> THEN e
    ELSE Rachas(PasoRacha(e, Head(cambios)), Tail(cambios))

RachasInicial ==
    [rachas_alcistas |-> 0, rachas_bajistas |-> 0, racha_actual |-> 0,
     tipo_racha |-> "None"]

ErrVolatilidad == [error |-> "Error al analizar volatilidad"]
ErrCargarPrimero == [error |-> "Debe cargar los datos historicos primero."]

\* What analizar_volatilidad shows: the error box, or the report, of which
\* the streak counts and the scanned differences are kept.
analizar_volatilidad ==
    IF datos_historicos = None THEN ErrCargarPrimero
    ELSE IF ColPrecio \notin datos_historicos[1].columnas THEN ErrVolatilidad
    ELSE LET cambios == Cambios(datos_historicos[1].filas, 2)
             e == Rachas(RachasInicial, cambios)
         IN  [cambios |-> cambios,
              rachas_alcistas |-> e.rachas_alcistas,
              rachas_bajistas |-> e.rachas_bajistas]

AnalizarVolatilidad ==
    /\ pc = "construido"
    /\ resultado' = analizar_volatilidad
    /\ op' = [nombre |-> "analizar_volatilidad", arg |-> None]
    /\ UNCHANGED <<interfaz, archivos, fuente, desempate, pc, campos, salida, X_pred>>

-----------------------------------------------------------------------------
(* validar_archivo_datos.                                                  *)

ColumnasRequeridas == <<ColFecha, ColPrecio>>

Mensaje(texto, columnas) == [texto |-> texto, columnas |-> columnas]

\* validar_archivo_datos with the check for rows made before the check for
\* columns.
validar_archivo_datos_vacio_primero(src) ==
    IF ~src.existe
    THEN <<FALSE, Mensaje("El archivo no existe", <<>>)>>
    ELSE IF src.columnas = {}
    THEN <<FALSE, Mensaje("Error al leer el archivo", <<>>)>>
    ELSE LET Falta_(col) == col \notin src.columnas
             columnas_faltantes == SelectSeq(ColumnasRequeridas, Falta_)
         IN  IF Len(src.filas) = 0
             THEN <<FALSE, Mensaje("El archivo esta vacio", <<>>)>>
             ELSE IF columnas_faltantes # <<>>
             THEN <<FALSE, Mensaje("Faltan las columnas", columnas_faltantes)>>
             ELSE IF \A i \in 1..Len(src.filas) : EsNaN(src.filas[i].precio)
             THEN <<FALSE, Mensaje("No hay datos de precios validos", <<>>)>>
             ELSE <<TRUE, Mensaje("Archivo valido", <<>>)>>

\* validar_archivo_datos(ruta_archivo): the pair (es_valido, mensaje); the
\* message is kept as its fixed text and the columns it lists.
validar_archivo_datos(src) ==
    IF ~src.existe
    THEN <<FALSE, Mensaje("El archivo no existe", <<>>)>>
    ELSE IF src.columnas = {}                  \* read_csv raises
    THEN <<FALSE, Mensaje("Error al leer el archivo", <<>>)>>
    ELSE LET Falta_(col) == col \notin src.columnas
             columnas_faltantes == SelectSeq(ColumnasRequeridas, Falta_)
         IN  IF columnas_faltantes # <<>>
             THEN <<FALSE, Mensaje("Faltan las columnas", columnas_faltantes)>>
             ELSE IF Len(src.filas) = 0
             THEN <<FALSE, Mensaje("El archivo esta vacio", <<>>)>>
             ELSE IF \A i \in 1..Len(src.filas) : EsNaN(src.filas[i].precio)
             THEN <<FALSE, Mensaje("No hay datos de precios validos", <<>>)>>
             ELSE <<TRUE, Mensaje("Archivo valido", <<>>)>>

\* A call of the free function on the data file, before or after the
\* predictor is constructed.
ValidarArchivoDatos ==
    /\ resultado' = validar_archivo_datos(fuente)
    /\ op' = [nombre |-> "validar_archivo_datos", arg |-> None]
    /\ UNCHANGED <<interfaz, archivos, fuente, desempate, pc, campos, salida, X_pred>>

-----------------------------------------------------------------------------
(* generar_fechas_futuras (data_handler.py).                               *)

\* The first day of the month after the month of f; the month after
\* December 9999 has no datetime.
MesSiguiente(f) ==
    IF f[2] < 12 THEN <<f[1], f[2] + 1, 1>> ELSE <<f[1] + 1, 1, 1>>

\* fecha_base + timedelta(days=n), n >= 0, before the range check: the
\* days are carried over the ends of the months.
RECURSIVE SumarDias(_, _)
SumarDias(f, n) ==
    IF f[3] + n <= DiasMes(f[1], f[2]) THEN <<f[1], f[2], f[3] + n>>
    ELSE SumarDias(MesSiguiente(f), n - (DiasMes(f[1], f[2]) - f[3] + 1))

\* generar_fechas_futuras with calendar months in place of blocks of 30
\* days.
generar_fechas_futuras_meses(fecha_inicio, num_meses) ==
    IF ~EsFechaValida(fecha_inicio)
    THEN [excepcion |-> "ValueError", fechas |-> <<>>]
    ELSE IF \E i \in 1..num_meses :
                ~EsFechaValida(RestarMeses(fecha_inicio, -i))
    THEN [excepcion |-> "OverflowError", fechas |-> <<>>]
    ELSE [excepcion |-> "",
          fechas |-> [i \in 1..num_meses |-> RestarMeses(fecha_inicio, -i)]]

\* generar_fechas_futuras: the list of dates, or the exception that leaves
\* the function.  strptime raises ValueError, which is raised again as a
\* ValueError; a sum past 9999-12-31 raises OverflowError, which no
\* handler of the function catches.  range(num_meses) is empty for
\* num_meses <= 0.
generar_fechas_futuras(fecha_inicio, num_meses) ==
    IF ~EsFechaValida(fecha_inicio)
    THEN [excepcion |-> "ValueError", fechas |-> <<>>]
    ELSE IF \E i \in 1..num_meses :
                ~EsFechaValida(SumarDias(fecha_inicio, 30 * i))
    THEN [excepcion |-> "OverflowError", fechas |-> <<>>]
    ELSE [excepcion |-> "",
          fechas |-> [i \in 1..num_meses |-> SumarDias(fecha_inicio, 30 * i)]]

\* Start dates a caller may pass: days at the start, the middle and the
\* end of a month, in a common year, a leap year and the last year of
\* datetime; some of them are no calendar dates.
FechasInicio ==
    {<<y, m, d>> : y \in {2023, 2024, 9999}, m \in {1, 2, 12},
                   d \in {1, 15, 28, 29, 30, 31}}

\* A call of the free function, before or after the predictor is
\* constructed.
GenerarFechasFuturas ==
    /\ \E fecha_inicio \in FechasInicio : \E num_meses \in -1..MaxLote :
          /\ resultado' = generar_fechas_futuras(fecha_inicio, num_meses)
          /\ op' = [nombre |-> "generar_fechas_futuras",
                    arg |-> Some(<<fecha_inicio, num_meses>>)]
    /\ UNCHANGED <<interfaz, archivos, fuente, desempate, pc, campos, salida, X_pred>>

-----------------------------------------------------------------------------
(* Environments: the artifact stores and data sources a run starts from.   *)

\* Feature-name lists an artifact may declare: one the input scaler was
\* fitted on, one of another width, one naming a column the synthesizer
\* does not produce.
ColumnasA == <<"month", "precio_lag1", "precio_ma3">>
ColumnasB == <<"precio_lag1", "precio_lag2">>
ColumnasC == <<"precio_lag1", "volumen", "month">>

\* The features that depend on the prices of the series.
ColumnasD ==
    <<"precio_lag1", "precio_lag2", "precio_lag3", "precio_ma3",
      "precio_ma6", "precio_std3", "precio_diff1", "precio_diff2">>

ObjModelo == [kernel |-> "rbf"]
ObjScalerX == [n_features |-> Len(ColumnasA)]
ObjScalerY == [tipo |-> "MinMaxScaler"]

Almacen(m, sx, sy, f) ==
    [n \in {"modelo", "scaler_x", "scaler_y", "features"} |->
        IF n = "modelo" THEN m ELSE IF n = "scaler_x" THEN sx
        ELSE IF n = "scaler_y" THEN sy ELSE f]

AlmacenesTodos ==
    {Almacen(m, sx, sy, f) :
        m \in {Falta, Corrupto, Blob(ObjModelo)},
        sx \in {Falta, Corrupto, Blob(ObjScalerX)},
        sy \in {Falta, Corrupto, Blob(ObjScalerY)},
        f \in {Falta, Corrupto, Blob(ColumnasA), Blob(ColumnasB),
               Blob(ColumnasC)}}

\* A store of each load outcome: complete, a file missing, a blob that
\* does not deserialize early or late in the load order.
AlmacenesTipicos ==
    {Almacen(Blob(ObjModelo), Blob(ObjScalerX), Blob(ObjScalerY), Blob(ColumnasA)),
     Almacen(Blob(ObjModelo), Blob(ObjScalerX), Blob(ObjScalerY), Blob(ColumnasB)),
     Almacen(Blob(ObjModelo), Blob(ObjScalerX), Blob(ObjScalerY), Blob(ColumnasC)),
     Almacen(Blob(ObjModelo), Blob(ObjScalerX), Falta, Blob(ColumnasA)),
     Almacen(Falta, Falta, Falta, Falta),
     Almacen(Blob(ObjModelo), Corrupto, Blob(ObjScalerY), Blob(ColumnasA)),
     Almacen(Blob(ObjModelo), Blob(ObjScalerX), Blob(ObjScalerY), Corrupto)}

\* The store whose four blobs agree with one another.
AlmacenA ==
    Almacen(Blob(ObjModelo), Blob(ObjScalerX), Blob(ObjScalerY), Blob(ColumnasA))

\* A complete store whose scaler was fitted on the columns ColumnasD.
AlmacenD ==
    Almacen(Blob(ObjModelo), Blob([n_features |-> Len(ColumnasD)]),
            Blob(ObjScalerY), Blob(ColumnasD))

FechasHist == {<<2024, 1, 1>>, <<2024, 3, 1>>, <<2024, 6, 1>>}

\* The (date, price) sequences of at most n rows, in chronological order.
Historias(fechas, precios, n) ==
    {h \in SecuenciasHasta([fecha : fechas, precio : precios], n) :
        \A i \in 1..Len(h) : \A j \in 1..Len(h) :
            i < j => FechaMenorIgual(h[i].fecha, h[j].fecha)}

\* Those whose dates are all different.
HistoriasEstrictas(fechas, precios, n) ==
    {h \in Historias(fechas, precios, n) :
        \A i \in 1..Len(h) : \A j \in 1..Len(h) :
            i < j => h[i].fecha # h[j].fecha}

\* The series of the end-to-end example of the trend.
SerieEjemplo ==
    <<Fila(<<2024, 1, 1>>, Num(50)), Fila(<<2024, 2, 1>>, Num(55)),
      Fila(<<2024, 3, 1>>, Num(60)), Fila(<<2024, 4, 1>>, Num(58)),
      Fila(<<2024, 5, 1>>, Num(62)), Fila(<<2024, 6, 1>>, Num(65))>>

\* Series whose first price in the window is zero.
SeriesCero ==
    {<<Fila(<<2024, 3, 1>>, Num(0)), Fila(<<2024, 6, 1>>, p)>> :
        p \in {Num(0), Num(20)}}

\* Series whose change is 5.004 % or -5.004 %: beyond the threshold, and
\* at the threshold once rounded to two decimals.
SeriesUmbral ==
    {<<Fila(<<2024, 3, 1>>, Num(25000)), Fila(<<2024, 6, 1>>, p)>> :
        p \in {Num(26251), Num(23749)}}

\* Daily price series: row i is dated the i-th of January 2024.
SeriesDiarias(precios, n) ==
    {[i \in 1..Len(ps) |-> Fila(<<2024, 1, i>>, ps[i])] :
        ps \in SecuenciasHasta(precios, n)}

\* Prices whose differences are +2, +1, 0, -3, -1, +4.
SerieRachas ==
    [i \in 1..7 |->
        Fila(<<2024, 1, i>>, Num(<<20, 22, 23, 23, 20, 19, 23>>[i]))]

\* Daily price series of exactly n rows.
SeriesLargas(precios, n) ==
    {[i \in 1..n |-> Fila(<<2024, 1, i>>, ps[i])] : ps \in [1..n -> precios]}

AmbasColumnas == {ColFecha, ColPrecio}

\* Sources of the load paths: no file, nothing to parse, a column absent,
\* no rows, an unparsable date, rows out of order, rows with equal dates.
FuentesCarga ==
    {SinArchivo,
     Tabla({}, <<>>),
     Tabla({ColPrecio}, <<>>),
     Tabla({ColFecha}, <<Fila(<<2024, 1, 1>>, NaN), Fila(<<2024, 3, 1>>, NaN)>>),
     Tabla(AmbasColumnas, <<>>),
     Tabla(AmbasColumnas, <<Fila(<<2024, 2, 30>>, Num(20))>>),
     Tabla(AmbasColumnas, <<Fila(<<2024, 6, 1>>, Num(21)),
                            Fila(<<2024, 1, 1>>, Num(19)),
                            Fila(<<2024, 3, 1>>, Num(20))>>),
     Tabla(AmbasColumnas, <<Fila(<<2024, 3, 1>>, Num(20)),
                            Fila(<<2024, 3, 1>>, NaN),
                            Fila(<<2024, 1, 1>>, Num(21))>>)}

\* The rows a generated source file is made of: two dates out of order or
\* equal, a date that does not parse, a price present or missing.
FilasFuente ==
    [fecha : {<<2024, 1, 1>>, <<2024, 3, 1>>, <<2024, 2, 30>>},
     precio : {NaN, Num(20)}]

\* Source files: absent, unreadable, or a table with one, both or none of
\* the required columns and at most MaxFilas rows in any order.
FuentesGeneradas ==
    {SinArchivo, Tabla({}, <<>>)} \cup
    {Tabla(c, f) :
        c \in {{ColFecha}, {ColPrecio}, AmbasColumnas, {"Producto"}},
        f \in SecuenciasHasta(FilasFuente, MaxFilas)}

-----------------------------------------------------------------------------
(* The application window: PredictorAguacateApp (main.py).                 *)

SinDialogo == [tipo |-> "", texto |-> ""]

\* messagebox.showerror, showwarning and showinfo.
Dialogo(tipo, texto) == [tipo |-> tipo, texto |-> texto]

\* What the two path fields may name when the model is loaded: a complete
\* store or one without the output scaler, and a data file of three rows.
AlmacenesInterfaz ==
    {AlmacenA,
     Almacen(Blob(ObjModelo), Blob(ObjScalerX), Falta, Blob(ColumnasA))}

FuentesInterfaz ==
    {Tabla(AmbasColumnas,
           <<Fila(<<2024, 1, 1>>, Num(19)), Fila(<<2024, 2, 1>>, Num(20)),
             Fila(<<2024, 3, 1>>, Num(21))>>)}

\* The object PredictorAguacate.__init__ leaves behind.
Instancia(m, d) ==
    [modelo_svm |-> m.modelo_svm, scaler_x |-> m.scaler_x,
     scaler_y |-> m.scaler_y,
     columnas_caracteristicas |-> m.columnas_caracteristicas,
     datos_historicos |-> d.datos_historicos,
     modelo_cargado |-> m.modelo_cargado]

\* The instance under app.predictor, read from the variables of its fields.
InstanciaActual ==
    [modelo_svm |-> modelo_svm, scaler_x |-> scaler_x, scaler_y |-> scaler_y,
     columnas_caracteristicas |-> columnas_caracteristicas,
     datos_historicos |-> datos_historicos,
     modelo_cargado |-> modelo_cargado]

Llamar(nombre, arg) == [nombre |-> nombre, arg |-> arg]

\* The part of cargar_modelo after the check of the paths: a new instance
\* is constructed from the files a and f and assigned to app.predictor,
\* then validated.  conservar is FALSE in the program; when it is TRUE the
\* handle and the fields stay with the instance before whenever the new
\* one is not fully functional.
CargarDesde(a, f, conservar) ==
    \E r \in cargar_datos_historicos(f) :
        LET m == _cargar_modelo(a)
            d == _cargar_datos_historicos(r)
            nueva == Instancia(m, d)
            funcional == nueva.modelo_cargado /\ nueva.datos_historicos # None
            queda == IF conservar /\ ~funcional /\ predictor # None
                     THEN InstanciaActual ELSE nueva
        IN  /\ instancias' = Append(instancias, nueva)
            /\ predictor' = IF conservar /\ ~funcional /\ predictor # None
                            THEN predictor
                            ELSE Some(Len(instancias) + 1)
            /\ modelo_svm' = queda.modelo_svm
            /\ scaler_x' = queda.scaler_x
            /\ scaler_y' = queda.scaler_y
            /\ columnas_caracteristicas' = queda.columnas_caracteristicas
            /\ datos_historicos' = queda.datos_historicos
            /\ modelo_cargado' = queda.modelo_cargado
            /\ salida' = salida \o m.salida \o d.salida
            /\ llamadas' = <<Llamar("validar_modelo", None)>>
            /\ IF validar_modelo'.modelo_completamente_funcional
               THEN /\ estado_modelo' = "Modelo cargado y listo"
                    /\ texto_info' = texto_info \o
                          <<"Iniciando carga del modelo...",
                            "Modelo cargado exitosamente">>
                    /\ dialogo' = Dialogo("info",
                                          "Modelo cargado correctamente.")
               ELSE /\ estado_modelo' = "Error en la carga del modelo"
                    /\ texto_info' = texto_info \o
                          <<"Iniciando carga del modelo...",
                            "Error al cargar el modelo">>
                    /\ dialogo' = Dialogo("error",
                                 "No se pudo cargar el modelo completamente.")

\* cargar_modelo with a handle that stays with the instance before when
\* the new one did not load.
CargarModeloConservaAnterior ==
    /\ Len(instancias) < MaxCargas
    /\ \E ruta_modelos \in {None} \cup {Some(a) : a \in AlmacenesInterfaz} :
       \E ruta_datos \in {None} \cup {Some(f) : f \in FuentesInterfaz} :
          /\ op' = Llamar("cargar_modelo",
                          Some([ruta_modelos |-> ruta_modelos # None,
                                ruta_datos |-> ruta_datos # None]))
          /\ IF ruta_modelos = None \/ ruta_datos = None
             THEN /\ dialogo' = Dialogo("error",
                                  "Debe configurar las rutas del modelo y datos")
                  /\ llamadas' = <<>>
                  /\ UNCHANGED <<archivos, fuente, pc, campos, salida,
                                 predictor, instancias, estado_modelo,
                                 texto_info>>
             ELSE /\ archivos' = ruta_modelos[1]
                  /\ fuente' = ruta_datos[1]
                  /\ pc' = "construido"
                  /\ CargarDesde(ruta_modelos[1], ruta_datos[1], TRUE)
    /\ resultado' = None
    /\ UNCHANGED <<desempate, X_pred, texto_resultados, texto_multiples>>

\* cargar_modelo: with a path field empty, a message box and nothing else;
\* otherwise the files the paths name are loaded into a new instance.  The
\* log pane gets the messages without their time stamps.
CargarModelo ==
    /\ Len(instancias) < MaxCargas
    /\ \E ruta_modelos \in {None} \cup {Some(a) : a \in AlmacenesInterfaz} :
       \E ruta_datos \in {None} \cup {Some(f) : f \in FuentesInterfaz} :
          /\ op' = Llamar("cargar_modelo",
                          Some([ruta_modelos |-> ruta_modelos # None,
                                ruta_datos |-> ruta_datos # None]))
          /\ IF ruta_modelos = None \/ ruta_datos = None
             THEN /\ dialogo' = Dialogo("error",
                                  "Debe configurar las rutas del modelo y datos")
                  /\ llamadas' = <<>>
                  /\ UNCHANGED <<archivos, fuente, pc, campos, salida,
                                 predictor, instancias, estado_modelo,
                                 texto_info>>
             ELSE /\ archivos' = ruta_modelos[1]
                  /\ fuente' = ruta_datos[1]
                  /\ pc' = "construido"
                  /\ CargarDesde(ruta_modelos[1], ruta_datos[1], FALSE)
    /\ resultado' = None
    /\ UNCHANGED <<desempate, X_pred, texto_resultados, texto_multiples>>

\* What the date field may hold: nothing, a date after the data, a date
\* that strptime rejects.
FechasPantalla == {None, Some(<<2024, 7, 1>>), Some(<<2024, 2, 30>>)}

\* The lines of the trend that realizar_prediccion adds to its text.
TextoTendencia(tendencia) ==
    IF "error" \in DOMAIN tendencia THEN None
    ELSE Some([direccion_tendencia |-> tendencia.direccion_tendencia,
               precio_promedio_periodo |-> tendencia.precio_promedio_periodo,
               precio_minimo_periodo |-> tendencia.precio_minimo_periodo,
               precio_maximo_periodo |-> tendencia.precio_maximo_periodo,
               volatilidad |-> tendencia.volatilidad])

\* realizar_prediccion: without a predictor or a date a message box; an
\* error record of the predictor goes to a message box; a prediction is
\* appended to the result pane with the trend of six months.
RealizarPrediccion ==
    /\ Len(texto_resultados) < MaxTextos
    /\ \E fecha \in FechasPantalla : \E t \in Relojes :
          /\ op' = Llamar("realizar_prediccion", fecha)
          /\ IF predictor = None
             THEN /\ dialogo' = Dialogo("error",
                                        "Debe cargar el modelo antes")
                  /\ llamadas' = <<>>
                  /\ UNCHANGED <<estado_modelo, texto_resultados, X_pred>>
             ELSE IF fecha = None
             THEN /\ dialogo' = Dialogo("warning", "Debe ingresar una fecha.")
                  /\ llamadas' = <<>>
                  /\ UNCHANGED <<estado_modelo, texto_resultados, X_pred>>
             ELSE \E r \in predecir_precio_fecha(fecha[1], t) :
                    /\ X_pred' = r.fila
                    /\ IF "error" \in DOMAIN r.res
                       THEN /\ dialogo' = Dialogo("error", r.res.error)
                            /\ estado_modelo' = "Error en prediccion"
                            /\ llamadas' =
                                  <<Llamar("predecir_precio_fecha", fecha)>>
                            /\ UNCHANGED texto_resultados
                       ELSE /\ texto_resultados' =
                                  Append(texto_resultados,
                                         [prediccion |-> r.res,
                                          tendencia |-> TextoTendencia(
                                              obtener_tendencia_historica(6))])
                            /\ estado_modelo' = "Prediccion completada"
                            /\ llamadas' =
                                  <<Llamar("predecir_precio_fecha", fecha),
                                    Llamar("obtener_tendencia_historica",
                                           Some(6))>>
                            /\ UNCHANGED dialogo
    /\ resultado' = None
    /\ UNCHANGED <<archivos, fuente, desempate, pc, campos, salida,
                   predictor, instancias, texto_info, texto_multiples>>

\* ventana_predicciones_multiples: without a predictor a message box;
\* otherwise a new window with an empty pane.
VentanaPrediccionesMultiples ==
    /\ op' = Llamar("ventana_predicciones_multiples", None)
    /\ IF predictor = None
       THEN /\ dialogo' = Dialogo("error", "Debe cargar el modelo antes")
            /\ UNCHANGED texto_multiples
       ELSE /\ texto_multiples' = Some(<<>>)
            /\ UNCHANGED dialogo
    /\ llamadas' = <<>>
    /\ resultado' = None
    /\ UNCHANGED <<archivos, fuente, desempate, pc, campos, salida, X_pred,
                   predictor, instancias, estado_modelo, texto_info,
                   texto_resultados>>

\* The largest number of months of a batch.
MaxMesesLote == 24

\* What the field of the number of months may hold: the decimal text of a
\* small count, of the counts around the limit, and a word.
TextosMeses ==
    {ToString(n) : n \in (-1..MaxLote) \cup {MaxMesesLote, MaxMesesLote + 1}}
        \cup {"seis"}

\* int(num_meses_str): the number the text is the decimal of, or None
\* where int raises ValueError.
int(num_meses_str) ==
    LET N == {n \in -1..(MaxMesesLote + 1) : ToString(n) = num_meses_str}
    IN  IF N = {} THEN None ELSE Some(CHOOSE n \in N : TRUE)

\* MesesValidos without the upper limit.
MesesValidosSinTope(num_meses) == ~(num_meses <= 0)

\* The negation of the test `num_meses <= 0 or num_meses > 24`.
MesesValidos(num_meses) == ~(num_meses <= 0 \/ num_meses > MaxMesesLote)

\* The line of the pane for the i-th result.
LineaLote(i, res) ==
    IF "error" \in DOMAIN res
    THEN [tipo |-> "error", i |-> i, error |-> res.error]
    ELSE [tipo |-> "precio", i |-> i, fecha |-> res.fecha,
          precio |-> res.precio]

\* The results of predecir_multiples_fechas(fechas) from position i on, as
\* the handler reads them: the lines they give, the prices of those
\* without an error, and the row the last call selected.  The time stamp
\* of a result is not shown.
RECURSIVE LineasLote(_, _)
LineasLote(fechas, i) ==
    IF i > Len(fechas) THEN {[lineas |-> <<>>, precios |-> <<>>, fila |-> None]}
    ELSE UNION {
           {[lineas |-> <<LineaLote(i, r.res)>> \o resto.lineas,
             precios |-> (IF "error" \in DOMAIN r.res THEN <<>>
                          ELSE <<r.res.precio>>) \o resto.precios,
             fila |-> IF i = Len(fechas) THEN r.fila ELSE resto.fila] :
               r \in UNION {predecir_precio_fecha(fechas[i], t) :
                               t \in Relojes}} :
             resto \in LineasLote(fechas, i + 1)}

\* The labels of the projected trend.
TendenciasProyectadas ==
    {"Alcista (precios en aumento)", "Bajista (precios en descenso)",
     "Estable (precios relativamente constantes)"}

\* The summaries the pane may end with for the prices of the results
\* without an error.  The mean and the change are kept as terms of the
\* prices; the label of the change of two prices that are the same term is
\* Estable, and any of the three otherwise.
ResumenLote(precios) ==
    IF precios = <<>> THEN {<<>>}
    ELSE LET cabeza == <<[tipo |-> "regla"], [tipo |-> "resumen"],
                         [tipo |-> "total", total |-> Len(precios)],
                         [tipo |-> "promedio", de |-> precios]>>
         IN  IF Len(precios) < 2 THEN {cabeza}
             ELSE {cabeza \o
                     <<[tipo |-> "cambio",
                        de |-> <<precios[1], precios[Len(precios)]>>],
                       [tipo |-> "tendencia", texto |-> txt]>> :
                     txt \in IF precios[1] = precios[Len(precios)]
                             THEN {"Estable (precios relativamente constantes)"}
                             ELSE TendenciasProyectadas}

\* Start dates of a batch: one in range, one that strptime rejects, one
\* whose first date of the batch is past the last datetime.
FechasIniciales == {<<2024, 1, 15>>, <<2024, 2, 30>>, <<9999, 12, 15>>}

\* _generar_predicciones_multiples in a window that is open.  A text that
\* is no number, a count outside the limits and a start that does not
\* parse raise ValueError, a date past the last datetime raises
\* OverflowError; both end in a message box before the pane is touched.
\* Otherwise the pane is cleared, the dates go to predecir_multiples_fechas
\* and the pane gets the heading, a line for each result and the summary.
GenerarPrediccionesMultiples ==
    /\ texto_multiples # None
    /\ \E fecha_inicial \in FechasIniciales :
       \E num_meses_str \in TextosMeses :
          LET num_meses == int(num_meses_str)
              fechas == [i \in 1..num_meses[1] |->
                            SumarDias(fecha_inicial, 30 * i)]
          IN  /\ op' = Llamar("_generar_predicciones_multiples",
                              Some([fecha_inicial |-> fecha_inicial,
                                    num_meses_str |-> num_meses_str]))
              /\ IF num_meses = None
                 THEN /\ dialogo' = Dialogo("error", "Valor invalido")
                      /\ llamadas' = <<>>
                      /\ UNCHANGED <<texto_multiples, X_pred>>
                 ELSE IF ~MesesValidos(num_meses[1])
                 THEN /\ dialogo' = Dialogo("error", "Valor invalido")
                      /\ llamadas' = <<>>
                      /\ UNCHANGED <<texto_multiples, X_pred>>
                 ELSE IF ~EsFechaValida(fecha_inicial)
                 THEN /\ dialogo' = Dialogo("error", "Valor invalido")
                      /\ llamadas' = <<>>
                      /\ UNCHANGED <<texto_multiples, X_pred>>
                 ELSE IF \E i \in 1..num_meses[1] : ~EsFechaValida(fechas[i])
                 THEN /\ dialogo' =
                            Dialogo("error",
                                    "Error al generar predicciones multiples")
                      /\ llamadas' = <<>>
                      /\ UNCHANGED <<texto_multiples, X_pred>>
                 ELSE \E lote \in LineasLote(fechas, 1) :
                      \E resumen \in ResumenLote(lote.precios) :
                        /\ texto_multiples' =
                              Some(<<[tipo |-> "titulo"], [tipo |-> "regla"]>>
                                   \o lote.lineas \o resumen)
                        /\ llamadas' =
                              <<Llamar("predecir_multiples_fechas",
                                       Some(fechas))>>
                        /\ X_pred' = lote.fila
                        /\ UNCHANGED dialogo
    /\ resultado' = None
    /\ UNCHANGED <<archivos, fuente, desempate, pc, campos, salida,
                   predictor, instancias, estado_modelo, texto_info,
                   texto_resultados>>

InitCon(almacenes, fuentes, desempates) ==
    /\ archivos \in almacenes
    /\ fuente \in fuentes
    /\ desempate \in desempates
    /\ pc = "sin_construir"
    /\ modelo_svm = None
    /\ scaler_x = None
    /\ scaler_y = None
    /\ columnas_caracteristicas = None
    /\ datos_historicos = None
    /\ modelo_cargado = FALSE
    /\ salida = <<>>
    /\ X_pred = None
    /\ op = [nombre |-> "", arg |-> None]
    /\ resultado = None
    /\ predictor = None
    /\ instancias = <<>>
    /\ estado_modelo = "Modelo no cargado"
    /\ texto_info = <<>>
    /\ texto_resultados = <<>>
    /\ texto_multiples = None
    /\ dialogo = SinDialogo
    /\ llamadas = <<>>

-----------------------------------------------------------------------------
(* Specifications.                                                         *)

\* Every operation of the predictor and the streak scan, over a store of
\* each load outcome and the sources of the load paths.
Init == InitCon(AlmacenesTipicos, FuentesCarga, Desempates)

Next ==
    \/ Construir
    \/ PredecirPrecioFecha
    \/ PredecirMultiplesFechas
    \/ ObtenerTendenciaHistorica
    \/ ValidarModelo
    \/ ObtenerInfoModelo
    \/ AnalizarVolatilidad

Spec == Init /\ [][Next]_vars

\* Construction and validation over every artifact store.
InitCarga == InitCon(AlmacenesTodos, FuentesCarga, Desempates)

NextCarga == Construir \/ ValidarModelo \/ ObtenerInfoModelo

SpecCarga == InitCarga /\ [][NextCarga]_vars

\* Single-date prediction over generated histories of distinct dates.
InitPrediccion ==
    InitCon({AlmacenA},
            {Tabla(AmbasColumnas, h) :
                h \in HistoriasEstrictas({<<2024, m, 1>> : m \in 1..MaxFilas},
                                         {NaN, Num(19), Num(20)}, MaxFilas)},
            Desempates)

NextPrediccion == Construir \/ PredecirPrecioFecha

SpecPrediccion == InitPrediccion /\ [][NextPrediccion]_vars

\* The trend over generated histories and the example series.
InitTendencia ==
    InitCon({AlmacenA},
            {Tabla(AmbasColumnas, h) :
                h \in Historias(FechasHist,
                                {NaN, Num(19), Num(20), Num(21)},
                                MaxFilas) \cup {SerieEjemplo} \cup SeriesCero
                     \cup SeriesUmbral},
            Desempates)

NextTendencia == Construir \/ ObtenerTendenciaHistorica

SpecTendencia == InitTendencia /\ [][NextTendencia]_vars

\* The streak scan over generated daily price series and the example.
InitRachas ==
    InitCon({AlmacenA},
            {Tabla(AmbasColumnas, h) :
                h \in SeriesDiarias({NaN, Num(19), Num(20), Num(21)},
                                    MaxPrecios) \cup {SerieRachas}},
            {"estable"})

NextRachas == Construir \/ AnalizarVolatilidad

SpecRachas == InitRachas /\ [][NextRachas]_vars

\* The loader and the file check over generated source files.
InitFuente == InitCon({AlmacenA}, FuentesGeneradas, Desempates)

NextFuente == Construir \/ ValidarArchivoDatos

SpecFuente == InitFuente /\ [][NextFuente]_vars

\* The feature synthesizer over short daily series with missing prices and
\* over series long enough to fill the window of six rows.
InitCaracteristicas ==
    InitCon({AlmacenA},
            {Tabla(AmbasColumnas, h) :
                h \in SeriesDiarias({NaN, Num(19), Num(20)}, MaxFilas) \cup
                      UNION {SeriesLargas({Num(19), Num(22)}, n) :
                                n \in 6..MaxSerie}},
            {"estable"})

NextCaracteristicas == Construir \/ CrearCaracteristicasTemporales

SpecCaracteristicas == InitCaracteristicas /\ [][NextCaracteristicas]_vars

\* Predictions over the price features: histories of distinct monthly
\* dates, some of them later than the target dates.
InitRezagos ==
    InitCon({AlmacenD},
            {Tabla(AmbasColumnas, h) :
                h \in HistoriasEstrictas({<<2024, m, 1>> : m \in 1..MaxFilas},
                                         {NaN, Num(19), Num(20), Num(21)},
                                         MaxFilas)},
            {"estable"})

NextRezagos == Construir \/ PredecirPrecioFecha

SpecRezagos == InitRezagos /\ [][NextRezagos]_vars

\* The date generator, with and without a predictor in place.
InitFechas == InitCon({AlmacenA}, {Tabla(AmbasColumnas, SerieEjemplo)},
                      {"estable"})

NextFechas == Construir \/ GenerarFechasFuturas

SpecFechas == InitFechas /\ [][NextFechas]_vars

\* The application window: loads of the model, one after another, and
\* single predictions in between.
InitRecarga == InitCon({AlmacenA}, {SinArchivo}, {"estable"})

NextRecarga == CargarModelo \/ RealizarPrediccion

SpecRecarga == InitRecarga /\ [][NextRecarga]_vars

\* The batch window: the model is loaded, the window opened, batches
\* generated.
InitLote == InitCon({AlmacenA}, {SinArchivo}, {"estable"})

NextLote ==
    \/ CargarModelo
    \/ VentanaPrediccionesMultiples
    \/ GenerarPrediccionesMultiples

SpecLote == InitLote /\ [][NextLote]_vars

-----------------------------------------------------------------------------
(* Properties.                                                             *)

EsError(r) == "error" \in DOMAIN r

Llamada(nombre) == pc = "construido" /\ op.nombre = nombre

\* C1: predecir_multiples_fechas returns a list as long as its input whose
\* i-th element is a record predecir_precio_fecha returns for fechas[i], in
\* every load state and whatever positions fail.
C1_LotePosicional ==
    Llamada("predecir_multiples_fechas") =>
        /\ Len(resultado) = Len(op.arg[1])
        /\ \A i \in 1..Len(op.arg[1]) :
              \E t \in Relojes :
                 resultado[i] \in
                    {r.res : r \in predecir_precio_fecha(op.arg[1][i], t)}

\* A batch whose first date fails and whose second date is predicted.
C1_Testigo ==
    /\ Llamada("predecir_multiples_fechas")
    /\ Len(op.arg[1]) = 2
    /\ EsError(resultado[1])
    /\ ~EsError(resultado[2])
    /\ resultado[2].fecha = op.arg[1][2]

\* C2: the row predecir_precio_fecha hands to the scaler is the row of the
\* merged series whose timestamp is the target date, for every valid date.
C2_FilaDeLaFecha ==
    (Llamada("predecir_precio_fecha") /\ X_pred # None) =>
        X_pred[1].fecha = op.arg[1]

\* C3 as stated: on the example series obtener_tendencia_historica(3) starts
\* the window at 58 and reports a change of 7, 12.07 per cent, Alcista.
C3_EjemploOriginal ==
    (Llamada("obtener_tendencia_historica") /\ fuente.filas = SerieEjemplo
        /\ op.arg = Some(3)) =>
        /\ resultado.precio_inicial = Num(58)
        /\ resultado.precio_final = Num(65)
        /\ resultado.cambio_absoluto = Num(7)
        /\ resultado.cambio_porcentual = Frac(1207, 100)
        /\ resultado.direccion_tendencia = "Alcista"

\* C3 amended: on the example series the window of 3 months holds the rows
\* from 2024-03-01 on, so obtener_tendencia_historica(3) reports
\* precio_inicial 60, precio_final 65, a change of 5, 8.33 per cent, Alcista.
C3_EjemploCorregido ==
    (Llamada("obtener_tendencia_historica") /\ fuente.filas = SerieEjemplo
        /\ op.arg = Some(3)) =>
        /\ ~EsError(resultado)
        /\ resultado.precio_inicial = Num(60)
        /\ resultado.precio_final = Num(65)
        /\ resultado.cambio_absoluto = Num(5)
        /\ resultado.cambio_porcentual = Frac(833, 100)
        /\ resultado.direccion_tendencia = "Alcista"

C3_Testigo ==
    /\ Llamada("obtener_tendencia_historica")
    /\ fuente.filas = SerieEjemplo
    /\ op.arg = Some(3)
    /\ ~EsError(resultado)

\* C4: the direction is Alcista exactly when the percentage change of the
\* window is above 5, Bajista exactly when it is below -5, and Estable
\* otherwise, the changes of exactly 5 and -5 included.  With first price
\* a > 0 and last price b the change exceeds 5 iff 100 (b - a) > 5 a.
C4_Direccion ==
    (Llamada("obtener_tendencia_historica") /\ ~EsError(resultado)) =>
        LET a == resultado.precio_inicial
            b == resultado.precio_final
            d == resultado.direccion_tendencia
        IN  /\ d \in {"Alcista", "Bajista", "Estable"}
            /\ (EsNaN(a) \/ EsNaN(b)) => d = "Estable"
            /\ (~EsNaN(a) /\ ~EsNaN(b) /\ a[1] > 0) =>
                  /\ d = "Alcista" <=>
                        100 * (b[1] * a[2] - a[1] * b[2]) > 5 * a[1] * b[2]
                  /\ d = "Bajista" <=>
                        100 * (b[1] * a[2] - a[1] * b[2]) < -5 * a[1] * b[2]
            /\ (~EsNaN(b) /\ a = Num(0)) =>
                  /\ d = "Alcista" <=> b[1] > 0
                  /\ d = "Bajista" <=> b[1] < 0

\* A change of exactly 5 per cent, from 20 to 21, reported Estable.
C4_Testigo ==
    /\ Llamada("obtener_tendencia_historica")
    /\ ~EsError(resultado)
    /\ resultado.precio_inicial = Num(20)
    /\ resultado.precio_final = Num(21)
    /\ resultado.cambio_porcentual = Num(5)
    /\ resultado.direccion_tendencia = "Estable"

\* The differences that are not zero, in order.
RECURSIVE SinCeros(_)
SinCeros(cs) ==
    IF cs = <<>> THEN <<>>
    ELSE IF Head(cs) = Num(0) THEN SinCeros(Tail(cs))
         ELSE <<Head(cs)>> \o SinCeros(Tail(cs))

\* The positions of cs where a run of differences of sign s starts.
Inicios(cs, s) ==
    {i \in 1..Len(cs) :
        /\ cs[i][1] * s > 0
        /\ i > 1 => cs[i - 1][1] * s < 0}

\* C5: in the streak scan a zero difference neither starts, extends nor
\* breaks a streak: the counts are the numbers of maximal runs of equal
\* sign of the differences with the zeros deleted, and the differences
\* +2, +1, 0, -3, -1, +4 give 2 bullish streaks and 1 bearish streak.
C5_CerosNeutros ==
    (Llamada("analizar_volatilidad") /\ ~EsError(resultado)) =>
        LET nz == SinCeros(resultado.cambios)
        IN  /\ resultado.rachas_alcistas = Cardinality(Inicios(nz, 1))
            /\ resultado.rachas_bajistas = Cardinality(Inicios(nz, -1))
            /\ resultado.cambios
                  = <<Num(2), Num(1), Num(0), Num(-3), Num(-1), Num(4)>>
               => /\ resultado.rachas_alcistas = 2
                  /\ resultado.rachas_bajistas = 1

\* The scan of a series with a zero between two rises.
C5_Testigo ==
    /\ Llamada("analizar_volatilidad")
    /\ ~EsError(resultado)
    /\ \E i \in 2..(Len(resultado.cambios) - 1) :
          /\ resultado.cambios[i] = Num(0)
          /\ Mayor(resultado.cambios[i - 1], Num(0))
          /\ Mayor(resultado.cambios[i + 1], Num(0))
    /\ resultado.rachas_alcistas = 1

C7_SinScalerY ==
    (Llamada("validar_modelo") /\ archivos["scaler_y"].estado = "falta") =>
        /\ ~resultado.scaler_y_cargado
        /\ ~resultado.modelo_completamente_funcional

\* The report when only the output scaler is missing.
C7_Testigo ==
    /\ Llamada("validar_modelo")
    /\ archivos["scaler_y"].estado = "falta"
    /\ \A n \in {"modelo", "scaler_x", "features"} : archivos[n].estado = "ok"
    /\ resultado.datos_historicos_cargados
    /\ ~resultado.scaler_y_cargado

\* C8: once the predictor is constructed no call changes modelo_svm,
\* scaler_x, scaler_y, columnas_caracteristicas, datos_historicos or
\* modelo_cargado, and the constructor's load is not run again.
C8_CargaUnaVez ==
    [][pc = "construido" => (campos' = campos /\ pc' = "construido")]_vars

\* A failed prediction on a predictor whose load stopped part way.
C8_Testigo ==
    /\ Llamada("predecir_precio_fecha")
    /\ EsError(resultado)
    /\ ~modelo_cargado
    /\ modelo_svm # None

\* C9: when the artifact is not loaded, predecir_precio_fecha returns the
\* ModelNotLoaded record for every input, a malformed date included,
\* predecir_multiples_fechas yields it at every position, obtener_info_modelo
\* returns its ModelNotLoaded record; validar_modelo returns a report in
\* every state.
C9_NoCargado ==
    /\ (Llamada("predecir_precio_fecha") /\ ~modelo_cargado) =>
          resultado = ErrNoCargado
    /\ (Llamada("predecir_multiples_fechas") /\ ~modelo_cargado) =>
          /\ Len(resultado) = Len(op.arg[1])
          /\ \A i \in 1..Len(resultado) : resultado[i] = ErrNoCargado
    /\ (Llamada("obtener_info_modelo") /\ ~modelo_cargado) =>
          resultado = ErrInfoNoCargado
    /\ Llamada("validar_modelo") =>
          /\ ~EsError(resultado)
          /\ resultado.modelo_completamente_funcional \in BOOLEAN

\* A malformed date on a predictor that is not loaded.
C9_Testigo ==
    /\ Llamada("predecir_precio_fecha")
    /\ ~modelo_cargado
    /\ ~EsFechaValida(op.arg[1])
    /\ resultado = ErrNoCargado

TodosDeserializan ==
    \A n \in DOMAIN archivos : archivos[n].estado = "ok"

Nombrado(n) ==
    \E i \in 1..Len(salida) :
        /\ salida[i].de = "modelo"
        /\ salida[i].error = "FileNotFoundError"
        /\ salida[i].nombre = n

\* C10 as stated: after construction modelo_cargado holds exactly when the
\* four files exist and deserialize, and the failure message names every
\* file that is missing.
C10_Original ==
    pc = "construido" =>
        /\ modelo_cargado <=> TodosDeserializan
        /\ \A n \in DOMAIN archivos :
              archivos[n].estado = "falta" => Nombrado(n)

\* C10 amended: after construction modelo_cargado holds exactly when the
\* four files exist and deserialize; when files are missing the load fails
\* with a message that names the first missing file in the order modelo,
\* scaler_x, scaler_y, features, and no other.
C10_PrimerFaltante ==
    pc = "construido" =>
        /\ modelo_cargado <=> TodosDeserializan
        /\ \A i \in 1..Len(NombresArchivos) :
              Nombrado(NombresArchivos[i]) <=>
                 /\ archivos[NombresArchivos[i]].estado = "falta"
                 /\ \A j \in 1..(i - 1) :
                       archivos[NombresArchivos[j]].estado # "falta"

\* Two files missing: the message names the first and not the second.
C10_Testigo ==
    /\ pc = "construido"
    /\ archivos["scaler_x"].estado = "falta"
    /\ archivos["features"].estado = "falta"
    /\ archivos["modelo"].estado = "ok"
    /\ Nombrado("scaler_x")
    /\ ~Nombrado("features")
    /\ ~modelo_cargado

\* C11 as stated: a source of which no row remains after parsing makes the
\* load fail, so that a constructed predictor never holds an empty series.
C11_SinFilasFalla ==
    (pc = "construido" /\ Len(fuente.filas) = 0) => datos_historicos = None

\* C12 as stated: a source lacking the date column or the price column
\* makes the load fail, so that a series held by the predictor has both
\* columns.
C12_AmbasColumnas ==
    (pc = "construido" /\ datos_historicos # None) =>
        AmbasColumnas \subseteq datos_historicos[1].columnas

\* The number of rows of filas equal to r.
Veces(filas, r) == Cardinality({i \in 1..Len(filas) : filas[i] = r})

\* C13: the series cargar_datos_historicos returns holds exactly the rows of
\* the source, each as many times as the source does, rows of equal
\* timestamp included, in an order in which the dates never decrease.
C13_MismasFilasOrdenadas ==
    (pc = "construido" /\ datos_historicos # None) =>
        LET df == datos_historicos[1].filas
        IN  /\ Len(df) = Len(fuente.filas)
            /\ \A i \in 1..Len(df) :
                   Veces(df, df[i]) = Veces(fuente.filas, df[i])
            /\ \A i \in 1..(Len(df) - 1) :
                   FechaMenorIgual(df[i].fecha, df[i + 1].fecha)

\* A loaded source whose rows were out of order and two of which share a
\* timestamp with different prices.
C13_Testigo ==
    /\ pc = "construido"
    /\ datos_historicos # None
    /\ Len(fuente.filas) = 3
    /\ FechaMenor(fuente.filas[3].fecha, fuente.filas[1].fecha)
    /\ fuente.filas[1].fecha = fuente.filas[2].fecha
    /\ fuente.filas[1].precio # fuente.filas[2].precio
    /\ datos_historicos[1].filas # fuente.filas

\* C14: validar_archivo_datos returns a pair and raises nothing; the pair is
\* (False, message) for a file that does not exist, for a file lacking a
\* required column (the message lists exactly the missing columns, also when
\* the file has no rows), for a file of both columns and no rows (the
\* message says empty) and for a file whose prices are all missing; it is
\* (True, message) for every other readable file.
C14_ValidarArchivo ==
    op.nombre = "validar_archivo_datos" =>
        LET es_valido == resultado[1]
            mensaje == resultado[2]
            legible == fuente.existe /\ fuente.columnas # {}
            ambas == AmbasColumnas \subseteq fuente.columnas
        IN  /\ es_valido \in BOOLEAN
            /\ ~legible => ~es_valido
            /\ (legible /\ ~ambas) =>
                  /\ ~es_valido
                  /\ mensaje.texto = "Faltan las columnas"
                  /\ {mensaje.columnas[i] : i \in 1..Len(mensaje.columnas)}
                        = AmbasColumnas \ fuente.columnas
            /\ (legible /\ ambas /\ Len(fuente.filas) = 0) =>
                  /\ ~es_valido
                  /\ mensaje.texto = "El archivo esta vacio"
            /\ es_valido <=>
                  /\ legible
                  /\ ambas
                  /\ \E i \in 1..Len(fuente.filas) :
                        ~EsNaN(fuente.filas[i].precio)

\* The check of a file that has no rows and lacks the price column: the
\* message names the column.
C14_Testigo ==
    /\ op.nombre = "validar_archivo_datos"
    /\ fuente.existe
    /\ fuente.columnas = {ColFecha}
    /\ Len(fuente.filas) = 0
    /\ resultado = <<FALSE, Mensaje("Faltan las columnas", <<ColPrecio>>)>>

\* C15 as stated: the vector predecir_precio_fecha hands to the input scaler
\* has one value per feature name of the artifact and none of them is
\* missing, the missing ones being replaced by a known historical price.
C15_SinFaltantes ==
    (Llamada("predecir_precio_fecha") /\ X_pred # None) =>
        /\ Len(X_pred[1].X) = Len(columnas_caracteristicas[1])
        /\ \A j \in 1..Len(X_pred[1].X) : ~EsNaN(X_pred[1].X[j])

\* C16 as stated: on a loaded predictor the record of an invalid date is
\* returned exactly when the date does not parse as a calendar date.
C16_FechaInvalidaSii ==
    (Llamada("predecir_precio_fecha") /\ modelo_cargado) =>
        (resultado = ErrFecha <=> ~EsFechaValida(op.arg[1]))

CamposPrediccion ==
    {"fecha", "precio", "moneda", "unidad", "fecha_prediccion", "modelo_usado"}

CamposTendencia ==
    {"periodo_analizado", "precio_inicial", "precio_final", "cambio_absoluto",
     "cambio_porcentual", "direccion_tendencia", "precio_promedio_periodo",
     "precio_maximo_periodo", "precio_minimo_periodo", "volatilidad"}

CamposValidacion ==
    {"modelo_svm_cargado", "scaler_x_cargado", "scaler_y_cargado",
     "columnas_caracteristicas_cargadas", "datos_historicos_cargados",
     "modelo_completamente_funcional"}

\* r is a returned record: an error record of the one key, or a success
\* record of exactly the success fields.
Devuelto(r, campos_exito) ==
    IF EsError(r) THEN DOMAIN r = {"error"} ELSE DOMAIN r = campos_exito

\* C17: the constructor completes from every store and source, and every
\* call of predecir_precio_fecha, predecir_multiples_fechas,
\* obtener_tendencia_historica, validar_modelo and obtener_info_modelo
\* returns, in every load state and for every input, a record that carries
\* either the key error alone or the success fields without it.
C17_SinExcepciones ==
    /\ pc = "sin_construir" => ENABLED Construir
    /\ Llamada("__init__") => resultado = None
    /\ Llamada("predecir_precio_fecha") =>
          Devuelto(resultado, CamposPrediccion)
    /\ Llamada("predecir_multiples_fechas") =>
          \A i \in 1..Len(resultado) :
             Devuelto(resultado[i], CamposPrediccion)
    /\ Llamada("obtener_tendencia_historica") =>
          Devuelto(resultado, CamposTendencia)
    /\ Llamada("validar_modelo") =>
          /\ DOMAIN resultado = CamposValidacion
          /\ \A k \in CamposValidacion : resultado[k] \in BOOLEAN
    /\ Llamada("obtener_info_modelo") =>
          (EsError(resultado) => DOMAIN resultado = {"error"})

\* A prediction on a loaded predictor whose artifact names a column the
\* synthesizer does not produce: the KeyError comes back as an error record.
C17_Testigo ==
    /\ Llamada("predecir_precio_fecha")
    /\ modelo_cargado
    /\ datos_historicos # None
    /\ columnas_caracteristicas = Some(ColumnasC)
    /\ EsFechaValida(op.arg[1])
    /\ resultado = ErrPrediccion

\* A returned record without the reading of the clock.
SinReloj(r) ==
    IF EsError(r) THEN r
    ELSE [k \in DOMAIN r \ {"fecha_prediccion"} |-> r[k]]

\* C18: a call of predecir_precio_fecha that follows a call with the same
\* date on the same predictor returns the same record, error or success
\* (precio, fecha, moneda, unidad, modelo_usado), up to fecha_prediccion.
C18_Determinista ==
    [][(Llamada("predecir_precio_fecha")
          /\ op'.nombre = "predecir_precio_fecha"
          /\ op'.arg = op.arg)
       => SinReloj(resultado') = SinReloj(resultado)]_vars

\* A successful prediction, the clock having advanced, for a date that the
\* history already holds, so that the merged series has two rows of that
\* date.
C18_Testigo ==
    /\ Llamada("predecir_precio_fecha")
    /\ ~EsError(resultado)
    /\ resultado.fecha_prediccion = 1
    /\ \E i \in 1..(Len(datos_historicos[1].filas) - 1) :
          datos_historicos[1].filas[i].fecha = op.arg[1]

\* C19: on a chronologically ordered series of at least 6 rows none of whose
\* prices is missing, precio_ma3 at every row from the third on is a third
\* of the sum of the prices of that row and the two rows before it, and
\* precio_lag1 at every row from the second on is the price of the row
\* before it.
C19_MediaYRezago ==
    (Llamada("crear_caracteristicas_temporales")
       /\ Len(op.arg[1]) >= 6
       /\ \A i \in 1..Len(op.arg[1]) : ~EsNaN(op.arg[1][i].precio)) =>
        LET filas == op.arg[1]
            p(i) == filas[i].precio
        IN  /\ \A i \in 3..Len(filas) :
                  LET ma3 == resultado[i]["precio_ma3"]
                  IN  /\ ~EsNaN(ma3)
                      /\ 3 * ma3[1] * p(i - 2)[2] * p(i - 1)[2] * p(i)[2]
                            = ma3[2] * (p(i - 2)[1] * p(i - 1)[2] * p(i)[2]
                                        + p(i - 1)[1] * p(i - 2)[2] * p(i)[2]
                                        + p(i)[1] * p(i - 2)[2] * p(i - 1)[2])
            /\ \A i \in 2..Len(filas) :
                  resultado[i]["precio_lag1"] = p(i - 1)

\* The features of a series of 6 rows ending in the prices 19, 22, 22: the
\* last mean is 21 and the last lag is 22.
C19_Testigo ==
    /\ Llamada("crear_caracteristicas_temporales")
    /\ Len(op.arg[1]) = 6
    /\ op.arg[1][4].precio = Num(19)
    /\ resultado[6]["precio_ma3"] = Num(21)
    /\ resultado[6]["precio_lag1"] = Num(22)

\* filas with the prices of the rows of J replaced by v.
Reemplazar(filas, J, v) ==
    [k \in 1..Len(filas) |->
        IF k \in J THEN Fila(filas[k].fecha, v) ELSE filas[k]]

\* C20: crear_caracteristicas_temporales returns one feature row for each
\* row of its input and leaves the input as it was, and no feature of row i
\* changes when the price of a later row, or of every later row, is
\* replaced by another value, the timestamps staying as they are.
C20_CausalYPura ==
    (Llamada("crear_caracteristicas_temporales")
       /\ ColPrecio \in datos_historicos[1].columnas) =>
        LET filas == op.arg[1]
            n == Len(filas)
        IN  /\ DOMAIN resultado = 1..n
            /\ datos_historicos[1].filas = filas
            /\ \A i \in 1..n :
                  \A J \in {{j} : j \in (i + 1)..n} \cup {(i + 1)..n} :
                     \A v \in {NaN, Num(19), Num(20), Num(22)} :
                        \A nombre \in ColumnasFrame :
                           Caracteristica(Reemplazar(filas, J, v), i, nombre)
                              = resultado[i][nombre]

\* The features of a series whose last price differs from the one before:
\* the last difference is not zero, and the rows before do not show it.
C20_Testigo ==
    /\ Llamada("crear_caracteristicas_temporales")
    /\ Len(op.arg[1]) = 6
    /\ resultado[6]["precio_diff1"] = Num(3)
    /\ resultado[5]["precio_diff1"] = Num(0)
    /\ ~EsNaN(resultado[6]["precio_ma6"])

CaracteristicasRezago == {"precio_lag1", "precio_lag2", "precio_lag3"}
CaracteristicasVentana == {"precio_ma3", "precio_ma6", "precio_std3"}

\* C21 as stated: for a series without missing prices, each of the first
\* two feature rows has every lag feature and every rolling feature missing.
C21_Original ==
    (Llamada("crear_caracteristicas_temporales")
       /\ \A i \in 1..Len(op.arg[1]) : ~EsNaN(op.arg[1][i].precio)) =>
        \A i \in 1..Len(op.arg[1]) :
            i <= 2 =>
               \A nombre \in CaracteristicasRezago \cup CaracteristicasVentana :
                  EsNaN(resultado[i][nombre])

\* C21 amended: for a series without missing prices, the first feature row
\* has the three lag features and the three rolling features missing; the
\* second row has precio_lag1 equal to the first price and precio_lag2,
\* precio_lag3 and the three rolling features missing.
C21_PrimerasFilas ==
    (Llamada("crear_caracteristicas_temporales")
       /\ \A i \in 1..Len(op.arg[1]) : ~EsNaN(op.arg[1][i].precio)) =>
        /\ Len(op.arg[1]) >= 1 =>
              \A nombre \in CaracteristicasRezago \cup CaracteristicasVentana :
                 EsNaN(resultado[1][nombre])
        /\ Len(op.arg[1]) >= 2 =>
              /\ resultado[2]["precio_lag1"] = op.arg[1][1].precio
              /\ \A nombre \in (CaracteristicasRezago \ {"precio_lag1"})
                                \cup CaracteristicasVentana :
                    EsNaN(resultado[2][nombre])

\* The features of a series of three priced rows: the second row carries
\* the first price as its lag, the third row has a full window of three.
C21_Testigo ==
    /\ Llamada("crear_caracteristicas_temporales")
    /\ Len(op.arg[1]) = 3
    /\ \A i \in 1..3 : ~EsNaN(op.arg[1][i].precio)
    /\ resultado[2]["precio_lag1"] = Num(19)
    /\ ~EsNaN(resultado[3]["precio_ma3"])

\* The rows of filas dated on or after the latest date less meses months.
Ventana(filas, meses) ==
    {i \in 1..Len(filas) :
        FechaMenorIgual(RestarMeses(FechaMaxima(filas), meses), filas[i].fecha)}

\* C22: obtener_tendencia_historica returns the record of no data when no
\* series is loaded, and the record of insufficient data, no summary,
\* exactly when no row of the loaded series falls in the window.
C22_VentanaVacia ==
    Llamada("obtener_tendencia_historica") =>
        /\ datos_historicos = None => resultado = ErrSinDatos
        /\ datos_historicos # None =>
              LET filas == datos_historicos[1].filas
                  vacia == Len(filas) = 0 \/ Ventana(filas, op.arg[1]) = {}
              IN  /\ vacia => resultado = ErrInsuficiente
                  /\ resultado = ErrInsuficiente => vacia

\* The trend of a series that was loaded with no rows.
C22_Testigo ==
    /\ Llamada("obtener_tendencia_historica")
    /\ datos_historicos # None
    /\ Len(datos_historicos[1].filas) = 0
    /\ resultado = ErrInsuficiente

\* The summary of the rows of filas in the window of meses months, from the
\* series alone.
ResumenDe(filas, meses) ==
    LET v == Ventana(filas, meses)
        primero == CHOOSE i \in v : \A j \in v : i <= j
        ultimo == CHOOSE i \in v : \A j \in v : i >= j
        a == filas[primero].precio
        b == filas[ultimo].precio
        precios == SinNaN(SubSeq(filas, primero, ultimo))
    IN  [periodo_analizado |-> meses,
         precio_inicial |-> Redondear2(a),
         precio_final |-> Redondear2(b),
         cambio_absoluto |-> Redondear2(Resta(b, a)),
         cambio_porcentual |-> Redondear2(Por(Div(Resta(b, a), a), 100)),
         direccion_tendencia |-> Direccion(Por(Div(Resta(b, a), a), 100)),
         precio_promedio_periodo |-> Redondear2(Media(precios)),
         precio_maximo_periodo |-> Redondear2(Maximo(precios)),
         precio_minimo_periodo |-> Redondear2(Minimo(precios)),
         volatilidad |-> DesvRedondeada(precios)]

\* C23: the trend does not look at the artifact: on a series with both
\* columns and at least one row obtener_tendencia_historica returns the
\* summary of the series, whether modelo_cargado holds or not, while
\* predecir_precio_fecha returns an error record when it does not hold.
C23_TendenciaSinModelo ==
    /\ (Llamada("obtener_tendencia_historica")
          /\ datos_historicos # None
          /\ AmbasColumnas \subseteq datos_historicos[1].columnas
          /\ Len(datos_historicos[1].filas) > 0) =>
           resultado = ResumenDe(datos_historicos[1].filas, op.arg[1])
    /\ (Llamada("predecir_precio_fecha") /\ ~modelo_cargado) =>
           EsError(resultado)

\* A summary from a predictor whose artifact did not load.
C23_Testigo ==
    /\ Llamada("obtener_tendencia_historica")
    /\ ~modelo_cargado
    /\ datos_historicos # None
    /\ ~EsError(resultado)
    /\ resultado.precio_final = Num(21)

\* The number of places where two successive differences of cs have
\* opposite signs.
CambiosDeSigno(cs) ==
    Cardinality({i \in 1..(Len(cs) - 1) : cs[i][1] * cs[i + 1][1] < 0})

\* C26: the streak scan counts streaks of alternating types: the two final
\* counts differ by at most 1, the type of the first difference that is
\* not zero has the count that is not the smaller, and the counts add up
\* to 1 plus the number of sign changes between successive differences
\* that are not zero, or to 0 when no difference is other than zero.
C26_RachasAlternan ==
    (Llamada("analizar_volatilidad") /\ ~EsError(resultado)) =>
        LET nz == SinCeros(resultado.cambios)
            a == resultado.rachas_alcistas
            b == resultado.rachas_bajistas
        IN  /\ a - b \in {-1, 0, 1}
            /\ nz = <<>> => a + b = 0
            /\ nz # <<>> =>
                  /\ a + b = 1 + CambiosDeSigno(nz)
                  /\ nz[1][1] > 0 => a >= b
                  /\ nz[1][1] < 0 => b >= a

\* A scan that met a fall, a rise and a fall again: two bearish streaks
\* around one bullish streak.
C26_Testigo ==
    /\ Llamada("analizar_volatilidad")
    /\ ~EsError(resultado)
    /\ Len(resultado.cambios) = 3
    /\ resultado.rachas_bajistas = 2
    /\ resultado.rachas_alcistas = 1

\* The fields of the artifact in the order of the load.
Componentes == <<modelo_svm, scaler_x, scaler_y, columnas_caracteristicas>>

DireccionAcorde(d, x) ==
    /\ d = "Alcista" => ~EsNaN(x) /\ ~Menor(x, Num(5))
    /\ d = "Bajista" => ~EsNaN(x) /\ ~Mayor(x, Num(-5))
    /\ d = "Estable" => ~EsNaN(x) /\ ~Menor(x, Num(-5)) /\ ~Mayor(x, Num(5))

\* C30 as stated: in every returned trend summary the reported
\* cambio_porcentual, rounded to two decimals, is at least 5.00 under
\* Alcista, at most -5.00 under Bajista, and from -5.00 to 5.00 under
\* Estable.
C30_Original ==
    (Llamada("obtener_tendencia_historica") /\ ~EsError(resultado)) =>
        DireccionAcorde(resultado.direccion_tendencia,
                        resultado.cambio_porcentual)

\* C30: the direction is taken from the unrounded change and the reported
\* cambio_porcentual is that change rounded to two decimals.  In every
\* returned trend summary whose reported change is a number, Alcista comes
\* with a reported change of at least 5.00, Bajista with one of at most
\* -5.00 and Estable with one from -5.00 to 5.00; a summary whose change is
\* not a number (a missing first or last price of the window, or a change
\* from zero to zero) has direction Estable.
C30_DireccionYRedondeo ==
    (Llamada("obtener_tendencia_historica") /\ ~EsError(resultado)) =>
        LET filas == datos_historicos[1].filas
            v == Ventana(filas, op.arg[1])
            a == filas[CHOOSE i \in v : \A j \in v : i <= j].precio
            b == filas[CHOOSE i \in v : \A j \in v : i >= j].precio
            pct == Por(Div(Resta(b, a), a), 100)
        IN  /\ resultado.cambio_porcentual = Redondear2(pct)
            /\ IF EsNaN(resultado.cambio_porcentual)
               THEN resultado.direccion_tendencia = "Estable"
               ELSE DireccionAcorde(resultado.direccion_tendencia,
                                    resultado.cambio_porcentual)

\* A summary with direction Alcista whose reported change is exactly 5.00:
\* the unrounded change, 5.004, is above the threshold.
C30_Testigo ==
    /\ Llamada("obtener_tendencia_historica")
    /\ ~EsError(resultado)
    /\ resultado.direccion_tendencia = "Alcista"
    /\ resultado.cambio_porcentual = Num(5)

\* C27: for a target date later than every date of a history of at least
\* three rows without a missing price, the vector predecir_precio_fecha
\* builds has precio_lag1, precio_lag2 and precio_lag3 equal to the last,
\* the second-last and the third-last price of the history, while
\* precio_ma3, precio_ma6, precio_std3, precio_diff1 and precio_diff2 are
\* missing in the row of the target date and are each set to the last
\* price of the history.
C27_RezagosYRelleno ==
    (/\ Llamada("predecir_precio_fecha")
     /\ modelo_cargado
     /\ datos_historicos # None
     /\ EsFechaValida(op.arg[1])) =>
        LET filas == datos_historicos[1].filas
            n == Len(filas)
            columnas == columnas_caracteristicas[1]
            marcador == Append(filas, Fila(op.arg[1], NaN))
            esperado(nombre) ==
                IF nombre = "precio_lag1" THEN filas[n].precio
                ELSE IF nombre = "precio_lag2" THEN filas[n - 1].precio
                ELSE IF nombre = "precio_lag3" THEN filas[n - 2].precio
                ELSE filas[n].precio
        IN  (/\ n >= 3
             /\ \A i \in 1..n : ~EsNaN(filas[i].precio)
             /\ \A i \in 1..n : FechaMenor(filas[i].fecha, op.arg[1])) =>
                /\ X_pred # None
                /\ Len(X_pred[1].X) = Len(columnas)
                /\ \A j \in 1..Len(columnas) :
                      columnas[j] \in CaracteristicasRezago \cup
                                      CaracteristicasVentana \cup
                                      {"precio_diff1", "precio_diff2"} =>
                          /\ X_pred[1].X[j] = esperado(columnas[j])
                          /\ columnas[j] \notin CaracteristicasRezago =>
                                EsNaN(crear_caracteristicas_temporales(marcador)
                                        [n + 1][columnas[j]])

\* A prediction for July over the prices 19, 20, 21 of January to March:
\* the lags are 21, 20, 19 and the five other price features are 21.
C27_Testigo ==
    /\ Llamada("predecir_precio_fecha")
    /\ op.arg = Some(<<2024, 7, 1>>)
    /\ columnas_caracteristicas = Some(ColumnasD)
    /\ X_pred # None
    /\ X_pred[1].X = <<Num(21), Num(20), Num(19), Num(21), Num(21), Num(21),
                       Num(21), Num(21)>>
    /\ ~EsError(resultado)

UltimaFecha == <<9999, 12, 31>>

\* fechas holds n dates, the i-th of them 30 i days after inicio, each
\* later than the one before it and than inicio.
CadaTreintaDias(inicio, n, fechas) ==
    /\ Len(fechas) = n
    /\ \A i \in 1..n :
          /\ EsFechaValida(fechas[i])
          /\ Ordinal(fechas[i]) = Ordinal(inicio) + 30 * i
          /\ FechaMenor(inicio, fechas[i])
          /\ i > 1 => FechaMenor(fechas[i - 1], fechas[i])

\* C24 as stated: for every valid start date and every num_meses >= 0,
\* generar_fechas_futuras returns a list of num_meses dates, the i-th of
\* them (counted from 1) 30 i days after the start.
C24_Original ==
    (/\ op.nombre = "generar_fechas_futuras"
     /\ EsFechaValida(op.arg[1][1])
     /\ op.arg[1][2] >= 0) =>
        /\ resultado.excepcion = ""
        /\ CadaTreintaDias(op.arg[1][1], op.arg[1][2], resultado.fechas)

\* C24: for a valid start date and num_meses >= 0 whose last date, the
\* start plus 30 num_meses days, is not after 9999-12-31,
\* generar_fechas_futuras returns a list of num_meses dates, the i-th of
\* them (counted from 1) 30 i days after the start, so each later than the
\* one before and than the start; when the last date is after 9999-12-31
\* an OverflowError leaves the function and no list is returned; a start
\* that is no calendar date raises ValueError and no list is returned.
C24_FechasCadaTreintaDias ==
    op.nombre = "generar_fechas_futuras" =>
        LET inicio == op.arg[1][1]
            n == op.arg[1][2]
        IN  /\ ~EsFechaValida(inicio) =>
                  resultado = [excepcion |-> "ValueError", fechas |-> <<>>]
            /\ (EsFechaValida(inicio) /\ n >= 0) =>
                  IF Ordinal(inicio) + 30 * n <= Ordinal(UltimaFecha)
                  THEN /\ resultado.excepcion = ""
                       /\ CadaTreintaDias(inicio, n, resultado.fechas)
                  ELSE resultado =
                         [excepcion |-> "OverflowError", fechas |-> <<>>]

\* Three dates from 2024-01-15: 14 February, 15 March and 14 April, where
\* calendar months would give the 15th of each month.
C24_Testigo ==
    /\ op = [nombre |-> "generar_fechas_futuras",
             arg |-> Some(<<(<<2024, 1, 15>>), 3>>)]
    /\ resultado.excepcion = ""
    /\ resultado.fechas = <<(<<2024, 2, 14>>), (<<2024, 3, 15>>),
                            (<<2024, 4, 14>>)>>

\* C28: cargar_modelo with both paths set constructs a new PredictorAguacate
\* and makes app.predictor refer to it, whether or not it loaded, and no
\* step changes an instance constructed before; so app.predictor always
\* refers to the instance constructed last, and once that instance is not
\* fully functional every prediction asked of the window ends in the
\* error record of the predictor, shown in a message box, with nothing
\* added to the result pane.
C28_RecargaReemplaza ==
    /\ [](/\ predictor = None <=> instancias = <<>>
          /\ predictor # None =>
                /\ predictor[1] = Len(instancias)
                /\ instancias[predictor[1]] = InstanciaActual
                /\ \E r \in cargar_datos_historicos(fuente) :
                      InstanciaActual =
                          Instancia(_cargar_modelo(archivos),
                                    _cargar_datos_historicos(r)))
    /\ [][/\ Len(instancias') >= Len(instancias)
          /\ \A k \in 1..Len(instancias) : instancias'[k] = instancias[k]
          /\ (/\ op'.nombre = "cargar_modelo"
              /\ op'.arg[1].ruta_modelos
              /\ op'.arg[1].ruta_datos) =>
                /\ Len(instancias') = Len(instancias) + 1
                /\ predictor' = Some(Len(instancias'))
          /\ (/\ op'.nombre = "realizar_prediccion"
              /\ op'.arg # None
              /\ predictor # None
              /\ ~(modelo_cargado /\ datos_historicos # None)) =>
                /\ dialogo' \in
                      {Dialogo("error", e.error) :
                          e \in {ErrNoCargado, ErrPrediccion, ErrFecha}}
                /\ texto_resultados' = texto_resultados]_vars

\* A load that worked, then a load that did not: the window refers to the
\* second instance, the first is as it was constructed, and a prediction
\* is answered with the record of a model that is not loaded.
C28_Testigo ==
    /\ Len(instancias) = 2
    /\ instancias[1].modelo_cargado
    /\ instancias[1].datos_historicos # None
    /\ ~instancias[2].modelo_cargado
    /\ predictor = Some(2)
    /\ op = Llamar("realizar_prediccion", Some(<<2024, 7, 1>>))
    /\ dialogo = Dialogo("error", ErrNoCargado.error)
    /\ llamadas = <<Llamar("predecir_precio_fecha", Some(<<2024, 7, 1>>))>>

\* The step is a run of _generar_predicciones_multiples.
PasoLote == op'.nombre = "_generar_predicciones_multiples"

\* The step hands no date to the predictor and leaves the pane as it was.
LoteRechazado == llamadas' = <<>> /\ texto_multiples' = texto_multiples

\* The step hands to predecir_multiples_fechas, in one call, n dates, the
\* i-th of them 30 i days after inicio.
LoteEnviado(inicio, n) ==
    /\ Len(llamadas') = 1
    /\ llamadas'[1].nombre = "predecir_multiples_fechas"
    /\ CadaTreintaDias(inicio, n, llamadas'[1].arg[1])

\* C25 as stated: a count outside 1..24 is rejected with a message and
\* with neither a call of predecir_multiples_fechas nor a change of the
\* pane, and for a count n in 1..24 and a valid start date n dates are
\* handed to the predictor.
C25_Original ==
    [][PasoLote =>
        LET n == int(op'.arg[1].num_meses_str)
            inicio == op'.arg[1].fecha_inicial
        IN  /\ (n = None \/ n[1] < 1 \/ n[1] > 24) =>
                  LoteRechazado /\ dialogo'.tipo = "error"
            /\ (n # None /\ n[1] \in 1..24 /\ EsFechaValida(inicio)) =>
                  LoteEnviado(inicio, n[1])]_vars

\* C25: _generar_predicciones_multiples rejects a month count that is no
\* number or is outside 1..24 with the message of an invalid value, and in
\* that case predecir_multiples_fechas is not called and the pane is left
\* as it was.  For a count n in 1..24 and a valid start date whose n-th
\* date, the start plus 30 n days, is not after 9999-12-31, exactly n
\* dates, the i-th of them 30 i days after the start, are handed to the
\* predictor in one call; when the n-th date is after 9999-12-31, or the
\* start date is not valid, the batch is rejected in the same way.
C25_LoteDentroDelLimite ==
    [][PasoLote =>
        LET n == int(op'.arg[1].num_meses_str)
            inicio == op'.arg[1].fecha_inicial
        IN  /\ (n = None \/ n[1] < 1 \/ n[1] > 24) =>
                  /\ LoteRechazado
                  /\ dialogo' = Dialogo("error", "Valor invalido")
            /\ (n # None /\ n[1] \in 1..24) =>
                  IF /\ EsFechaValida(inicio)
                     /\ Ordinal(inicio) + 30 * n[1] <= Ordinal(UltimaFecha)
                  THEN LoteEnviado(inicio, n[1])
                  ELSE LoteRechazado /\ dialogo'.tipo = "error"]_vars

\* A batch of 25 months asked of a window whose pane shows the batch
\* before: no call, and the pane still shows that batch.
C25_Testigo ==
    /\ op = Llamar("_generar_predicciones_multiples",
                   Some([fecha_inicial |-> <<2024, 1, 15>>,
                         num_meses_str |-> "25"]))
    /\ llamadas = <<>>
    /\ dialogo = Dialogo("error", "Valor invalido")
    /\ texto_multiples # None
    /\ Len(texto_multiples[1]) > 24

=============================================================================
